---- MODULE Spec2Model ----
(***************************************************************************)
(* Model of the Boost.Test adapter: the session coordinator                *)
(* (BoostTestAdapter, src/src/main.ts) and the executable driver           *)
(* (TestExecutable, src/src/test-executable.ts, the variant of lines       *)
(* 421-683 that main.ts constructs with a workspace folder).               *)
(*                                                                         *)
(* Strings the code inspects (identifiers, labels) are sequences of        *)
(* one-character strings, so that the regular expressions and the          *)
(* concatenations of the code are computed, not assumed.                   *)
(***************************************************************************)
EXTENDS Integers, Sequences, FiniteSets, TLC

\* ------------------------------------------------------------------ bounds
\* Number of load()/run() calls (host calls and watch-triggered reloads).
MaxCalls == 2
\* Number of stdout lines the test executable prints over a whole behaviour.
MaxLines == 1
\* Number of access() checks of watch events that may be pending at once.
MaxPending == 1
\* Number of stdout lines of the one run whose output stream is followed.
MaxStream == 4
\* Number of lines of a plain-text listing.
MaxPlain == 4
\* Number of suites of a generated DOT listing.
MaxSuites == 2
\* The calls of load() and run() over a behaviour of the watch.
MaxWatched == 3
MaxDebug == 1

\* ----------------------------------------------------------------- strings
Undefined == "undefined"

Digits == {"0", "1", "2", "3", "4", "5", "6", "7", "8", "9"}

\* \w of the regular expressions, restricted to the letters the model uses.
WordChars == {"S", "T", "a", "b", "c", "t", "f", "u", "s", "_"} \cup Digits

IsWord(s) == Len(s) > 0 /\ \A i \in 1..Len(s) : s[i] \in WordChars

IsDigits(s) == Len(s) > 0 /\ \A i \in 1..Len(s) : s[i] \in Digits

DigitVal(c) ==
    CASE c = "0" -> 0 [] c = "1" -> 1 [] c = "2" -> 2 [] c = "3" -> 3
      [] c = "4" -> 4 [] c = "5" -> 5 [] c = "6" -> 6 [] c = "7" -> 7
      [] c = "8" -> 8 [] c = "9" -> 9

RECURSIVE parseInt(_)
parseInt(s) ==
    IF Len(s) = 0 THEN 0
    ELSE 10 * parseInt(SubSeq(s, 1, Len(s) - 1)) + DigitVal(s[Len(s)])

\* Positions of character c in s.
Positions(s, c) == {i \in 1..Len(s) : s[i] = c}

Min(S) == CHOOSE x \in S : \A y \in S : x <= y
Max(S) == CHOOSE x \in S : \A y \in S : x >= y

\* The settings: boost-test-adapter.testExecutable, relative to the workspace.
ExePath == <<"b", "/", "t">>
WorkspaceFsPath == <<"/", "w">>

\* path.resolve(base, p) for a relative p.
Resolve(base, p) == base \o <<"/">> \o p

\* boost-test-adapter.sourcePrefix is left unset.
SourcePrefix == Undefined

\* ------------------------------------------------------- DOT graph (parsed)
\* The value dotparser returns: a sequence of graphs; a graph's children are
\* node statements (with an attribute list), subgraphs and attribute
\* statements.
Attr(id, eq) == [type |-> "attr", id |-> id, eq |-> eq]
NodeStmt(attrs) == [type |-> "node_stmt", attr_list |-> attrs]
Subgraph(children) == [type |-> "subgraph", children |-> children]
Digraph(children) == [type |-> "digraph", children |-> children]
AttrStmt == [type |-> "attr_stmt"]

\* An optional value is a sequence: <<>> is undefined, <<v>> is v.
None == <<>>
Some(v) == <<v>>

\* The catalog a coordinator without tests holds (currentTests undefined).
Absent == [type |-> "undefined"]

\* Array.prototype.find: the first element satisfying the test, if any.
FindType(children, ty) ==
    LET idx == {i \in 1..Len(children) : children[i].type = ty}
    IN IF idx = {} THEN None ELSE Some(children[Min(idx)])

FindAttr(attrs, id) ==
    LET idx == {i \in 1..Len(attrs) : attrs[i].id = id}
    IN IF idx = {} THEN None ELSE Some(attrs[Min(idx)])

Ok(v) == [tag |-> "ok", val |-> v]
Throw(name) == [tag |-> "throw", err |-> [name |-> name, code |-> Undefined]]
ThrowErr(e) == [tag |-> "throw", err |-> e]

\* /^(\w+)\|(.+)\((\d+)\)$/ on the label attribute of a node.
parseLabel(node) ==
    LET label == FindAttr(node.attr_list, "label") IN
    IF label = None THEN Throw("Node does not have a label attribute")
    ELSE
      LET s == label[1].eq
          bars == Positions(s, "|")
          n == Len(s)
          \* the group (\d+) is the run of digits that ends right before the
          \* closing parenthesis and starts right after an opening one
          opens == {i \in Positions(s, "(") :
                       /\ i < n - 1
                       /\ IsDigits(SubSeq(s, i + 1, n - 1))}
      IN IF /\ n > 0
            /\ s[n] = ")"
            /\ bars # {}
            /\ IsWord(SubSeq(s, 1, Min(bars) - 1))
            /\ opens # {}
            /\ Max(opens) > Min(bars) + 1
         THEN Ok([name |-> SubSeq(s, 1, Min(bars) - 1),
                  file |-> SubSeq(s, Min(bars) + 1, Max(opens) - 1),
                  line |-> parseInt(SubSeq(s, Max(opens) + 1, n - 1))])
         ELSE Throw("Failed to extract label")

SourceFile(file) ==
    IF SourcePrefix # Undefined THEN Resolve(SourcePrefix, file) ELSE file

\* A parseSuite that stores the line number as it is printed.
parseSuiteOneBased(node) ==
    LET info == parseLabel(node) IN
    IF info.tag = "throw" THEN info
    ELSE Ok([type |-> "suite",
             id |-> info.val.name,
             label |-> info.val.name,
             file |-> SourceFile(info.val.file),
             line |-> info.val.line,
             children |-> <<>>])

parseSuite(node) ==
    LET info == parseLabel(node) IN
    IF info.tag = "throw" THEN info
    ELSE Ok([type |-> "suite",
             id |-> info.val.name,
             label |-> info.val.name,
             file |-> SourceFile(info.val.file),
             line |-> info.val.line - 1,
             children |-> <<>>])

\* The loop of parseCases over graph.children from index i on, tests being the
\* cases pushed so far; suite is None when no suite precedes the subgraph.
RECURSIVE parseCasesFrom(_, _, _, _)
parseCasesFrom(suite, children, i, tests) ==
    IF i > Len(children) THEN Ok(tests)
    ELSE IF children[i].type = "node_stmt"
    THEN LET info == parseLabel(children[i]) IN
         IF info.tag = "throw" THEN info
         ELSE IF suite = None
         THEN Throw("TypeError")
         ELSE parseCasesFrom(suite, children, i + 1,
                Append(tests, [type |-> "test",
                               id |-> suite[1].id \o <<"/">> \o info.val.name,
                               label |-> info.val.name,
                               file |-> SourceFile(info.val.file),
                               line |-> info.val.line - 1]))
    ELSE parseCasesFrom(suite, children, i + 1, tests)

parseCases(suite, graph) == parseCasesFrom(suite, graph.children, 1, <<>>)

\* The loop of listTest over suites.children from index i on.
RECURSIVE listSuitesFrom(_, _, _)
listSuitesFrom(tests, children, i) ==
    IF i > Len(children) THEN Ok(tests)
    ELSE LET suite == children[i] IN
      CASE suite.type = "node_stmt" ->
             LET s == parseSuite(suite) IN
             IF s.tag = "throw" THEN s
             ELSE listSuitesFrom(
                    [tests EXCEPT !.children = Append(@, s.val)], children, i + 1)
        [] suite.type = "subgraph" ->
             LET n == Len(tests.children)
                 current == IF n = 0 THEN None ELSE Some(tests.children[n])
                 cs == parseCases(current, suite)
             IN IF cs.tag = "throw" THEN cs
                ELSE IF current = None THEN Throw("TypeError")
                ELSE listSuitesFrom(
                       [tests EXCEPT !.children[n].children = cs.val],
                       children, i + 1)
        [] OTHER -> listSuitesFrom(tests, children, i + 1)

\* listTest after the listing process closed with exit code `exit`, `parsed`
\* being what dotparser makes of the gathered standard error.
listTestClosed(exit, parsed) ==
    IF exit # 0 THEN Throw("is exited with code")
    ELSE IF Len(parsed) = 0 THEN Throw("Failed to parse list of test cases")
    ELSE
      LET root == parsed[1]
          module == FindType(root.children, "node_stmt")
      IN IF module = None THEN Throw("Cannot find test's module definition")
         ELSE
           LET moduleName == FindAttr(module[1].attr_list, "label") IN
           IF moduleName = None
           THEN Throw("Cannot find the name of test module")
           ELSE
             LET tests == [type |-> "suite",
                           id |-> ExePath,
                           label |-> moduleName[1].eq,
                           file |-> Resolve(WorkspaceFsPath, ExePath),
                           children |-> <<>>]
                 suites == FindType(root.children, "subgraph")
             IN IF suites = None
                THEN Throw("Cannot find a list of test suite")
                ELSE listSuitesFrom(tests, suites[1].children, 1)

\* A listTest that rethrows every rejection.
listTestRethrows(e) == ThrowErr(e)

\* A listTest that takes every rejection for a missing binary.
listTestSwallows(e) == Ok(Absent)

\* listTest after the session's completion signal rejected with error e.
listTestRejected(e) ==
    IF e.code = "ENOENT" THEN Ok(Absent) ELSE ThrowErr(e)


\* ------------------------------------------------- what the executable prints
ModuleNode == NodeStmt(<<Attr("shape", <<"b">>), Attr("label", <<"t">>)>>)
SuiteS == NodeStmt(<<Attr("label", <<"S", "|", "f", "(", "3", ")">>)>>)
SuiteT == NodeStmt(<<Attr("label", <<"T", "|", "f", "(", "1", "0", ")">>)>>)
CaseA == NodeStmt(<<Attr("label", <<"a", "|", "f", "(", "4", ")">>)>>)
CaseB == NodeStmt(<<Attr("label", <<"b", "|", "f", "(", "7", ")">>)>>)
BadLabelNode == NodeStmt(<<Attr("label", <<"c", "(", "5", ")">>)>>)
NoLabelNode == NodeStmt(<<Attr("shape", <<"b">>)>>)

\* The decimal digits of a natural number, as the executable prints it.
DigitChar(d) ==
    CASE d = 0 -> "0" [] d = 1 -> "1" [] d = 2 -> "2" [] d = 3 -> "3"
      [] d = 4 -> "4" [] d = 5 -> "5" [] d = 6 -> "6" [] d = 7 -> "7"
      [] d = 8 -> "8" [] d = 9 -> "9"

RECURSIVE ToDigits(_)
ToDigits(n) ==
    IF n < 10 THEN <<DigitChar(n)>>
    ELSE Append(ToDigits(n \div 10), DigitChar(n % 10))

\* The node Boost.Test prints for a suite or case: label="name|file(line)".
TestNode(name, file, line) ==
    NodeStmt(<<Attr("label",
                    name \o <<"|">> \o file \o <<"(">> \o ToDigits(line)
                         \o <<")">>)>>)

\* A suite and a case whose names make the path of the executable, the case
\* in a file whose name has parentheses.
SuiteB == TestNode(<<"b">>, <<"f">>, 1)
CaseT == TestNode(<<"t">>, <<"f", "(", "1", ")">>, 12)

\* Listings that make a catalog.
DotOneSuite ==
    <<Digraph(<<AttrStmt, ModuleNode,
                Subgraph(<<SuiteS, Subgraph(<<CaseA, CaseB>>)>>)>>)>>
DotTwoSuites ==
    <<Digraph(<<ModuleNode,
                Subgraph(<<SuiteS, Subgraph(<<CaseA>>), SuiteT>>)>>)>>
GoodDots == {DotOneSuite, DotTwoSuites}

\* Listings discovery fails on, one per failure of listTest.
DotEmpty == <<>>
DotNoModule == <<Digraph(<<Subgraph(<<SuiteS>>)>>)>>
DotNoModuleLabel == <<Digraph(<<NoLabelNode, Subgraph(<<SuiteS>>)>>)>>
DotNoSuiteList == <<Digraph(<<ModuleNode>>)>>
DotNoLabel == <<Digraph(<<ModuleNode, Subgraph(<<SuiteS, NoLabelNode>>)>>)>>
DotBadLabel ==
    <<Digraph(<<ModuleNode,
                Subgraph(<<SuiteS, Subgraph(<<CaseA, BadLabelNode>>)>>)>>)>>
DotCasesFirst == <<Digraph(<<ModuleNode, Subgraph(<<Subgraph(<<CaseA>>)>>)>>)>>
BadDots == {DotEmpty, DotNoModule, DotNoModuleLabel, DotNoSuiteList,
            DotNoLabel, DotBadLabel, DotCasesFirst}

Dots == GoodDots \cup BadDots

\* The listings Boost.Test prints for a module of up to MaxSuites suites, each
\* of up to two cases: every node is followed by the edge from its parent,
\* and the cases of a suite are a subgraph after the suite's node and edge.
EdgeStmt == [type |-> "edge_stmt"]
SuiteNodes == {SuiteS, SuiteT, SuiteB}
CaseNodes == {CaseA, CaseB, CaseT}

CaseLists ==
    {<<>>} \cup {<<c, EdgeStmt>> : c \in CaseNodes}
        \cup {<<c, EdgeStmt, d, EdgeStmt>> : c \in CaseNodes, d \in CaseNodes}

SuiteEntries ==
    {<<n, EdgeStmt>> : n \in SuiteNodes}
        \cup {<<n, EdgeStmt, Subgraph(cs)>> : n \in SuiteNodes, cs \in CaseLists}

RECURSIVE SuiteLists(_)
SuiteLists(n) ==
    IF n = 0 THEN {<<>>}
    ELSE SuiteLists(n - 1)
           \cup {l \o e : l \in SuiteLists(n - 1), e \in SuiteEntries}

GenDot(children) == <<Digraph(<<AttrStmt, ModuleNode, Subgraph(children)>>)>>

GenDots == {GenDot(l) : l \in SuiteLists(MaxSuites)}

\* What the listing process of such a module does.
GenOutcomes == {[exit |-> 0, parsed |-> d] : d \in GenDots}

\* A listing whose suite b has a case t, while the executable is b/t.
DotRootClash ==
    <<Digraph(<<ModuleNode, Subgraph(<<SuiteB, Subgraph(<<CaseT>>)>>)>>)>>

\* Exit codes of the executable: success, and Boost.Test's failure code.
ExitCodes == {0, 201}

\* What a listing process does before it closes: its exit code and the graph
\* its standard error parses to.
ListOutcomes ==
    {[exit |-> 0, parsed |-> d] : d \in Dots}
        \cup {[exit |-> 201, parsed |-> DotEmpty]}

\* The listings the coordinator is run against together with run(): a
\* catalog, and a nonzero exit.
CoordOutcomes ==
    {[exit |-> 0, parsed |-> DotOneSuite], [exit |-> 201, parsed |-> DotEmpty]}

\* The requests the host makes of run().
CaseSa == <<"S", "/", "a">>
RunRequests == {<<>>, <<ExePath>>, <<<<"S">>>>, <<CaseSa, <<"S">>>>}

\* The identifiers a host may ask for: suites, cases of the catalogs, a case
\* no catalog has, and the root.
CaseSb == <<"S", "/", "b">>
CaseTa == <<"T", "/", "a">>
RequestIds == {<<"S">>, <<"T">>, CaseSa, CaseSb, CaseTa, ExePath}

\* Every request of at most two identifiers, and requests of three in which a
\* suite covers none, one or two of the cases.
Requests ==
    {<<>>} \cup {<<i>> : i \in RequestIds}
        \cup {<<i, j>> : i \in RequestIds, j \in RequestIds}
        \cup {<<CaseSa, <<"S">>, CaseTa>>, <<CaseSa, CaseSb, <<"S">>>>,
              <<CaseTa, CaseSa, <<"T">>>>, <<<<"S">>, <<"T">>, CaseSa>>}

\* The listings the coordinator is run against together with these requests.
RequestOutcomes ==
    {[exit |-> 0, parsed |-> d] : d \in {DotOneSuite, DotRootClash}}
        \cup {[exit |-> 201, parsed |-> DotEmpty]}

\* The fixed texts of the five patterns of runTests.  A line is a sequence of
\* strings: single characters, and these texts as one element each.
EnterCase == ": Entering test case \""
LeaveCase == ": Leaving test case \""
ErrorIn == ": error: in \""
ErrorSep == "\": "
EnterSuite == ": Entering test suite \""
LeaveSuite == ": Leaving test suite \""
Timing == "\"; testing time: "
Quote == "\""

\* /^(.+)<mark>(\w+)"$/ : the quoted name, if the line matches.
MatchQuoted(line, mark) ==
    LET n == Len(line)
        at == {i \in Positions(line, mark) :
                  /\ i >= 2
                  /\ i <= n - 2
                  /\ line[n] = Quote
                  /\ IsWord(SubSeq(line, i + 1, n - 1))}
    IN IF at = {} THEN None ELSE Some(SubSeq(line, Max(at) + 1, n - 1))

\* /^(.+)<mark>(\w+)"; testing time: (\d+)(\w+)$/ : the quoted name, if the
\* line matches.
MatchTimed(line, mark) ==
    LET n == Len(line)
        at == {p \in Positions(line, mark) \X Positions(line, Timing) :
                  /\ p[1] >= 2
                  /\ p[2] > p[1] + 1
                  /\ IsWord(SubSeq(line, p[1] + 1, p[2] - 1))
                  /\ n - p[2] >= 2
                  /\ line[p[2] + 1] \in Digits
                  /\ IsWord(SubSeq(line, p[2] + 1, n))}
    IN IF at = {} THEN None
       ELSE LET p == CHOOSE q \in at : \A r \in at : r[1] <= q[1]
            IN Some(SubSeq(line, p[1] + 1, p[2] - 1))

\* /^(.+): error: in "([\w\/]+)": (.+)$/ : the message, if the line matches.
\* The first group is greedy, so the match starts at the last place it can.
MatchError(line) ==
    LET n == Len(line)
        at == {p \in Positions(line, ErrorIn) \X Positions(line, ErrorSep) :
                  /\ p[1] >= 2
                  /\ p[2] > p[1] + 1
                  /\ \A k \in (p[1] + 1)..(p[2] - 1) :
                        line[k] \in WordChars \cup {"/"}
                  /\ p[2] < n}
    IN IF at = {} THEN None
       ELSE LET p == CHOOSE q \in at : \A r \in at : r[1] <= q[1]
            IN Some(SubSeq(line, p[2] + 1, n))

\* A line of the run's standard output as Boost.Test prints it for one of the
\* five patterns, with the quoted name and, for an error line, the message.
Line(kind, name, msg) ==
    CASE kind = "Entering test case" -> <<"x", EnterCase>> \o name \o <<Quote>>
      [] kind = "Leaving test case" ->
           <<"x", LeaveCase>> \o name \o <<Timing, "1", "u", "s">>
      [] kind = "error" -> <<"x", ErrorIn>> \o name \o <<ErrorSep>> \o msg
      [] kind = "Entering test suite" -> <<"x", EnterSuite>> \o name \o <<Quote>>
      [] kind = "Leaving test suite" ->
           <<"x", LeaveSuite>> \o name \o <<Timing, "1", "u", "s">>
      [] OTHER -> <<"x", ":", " ">> \o msg

RunLines ==
    {Line("Entering test suite", <<"S">>, <<>>),
     Line("Entering test case", <<"a">>, <<>>),
     Line("Leaving test case", <<"a">>, <<>>),
     Line("other", <<>>, <<>>)}

\* The lines of a run whose stream is followed: suite S and a suite T that
\* is entered and left, a case, errors with two messages, a line of no
\* pattern, and an error line whose message ends like a case start.
StreamLines ==
    {Line("Entering test suite", <<"S">>, <<>>),
     Line("Entering test suite", <<"T">>, <<>>),
     Line("Leaving test suite", <<"T">>, <<>>),
     Line("Entering test case", <<"a">>, <<>>),
     Line("Leaving test case", <<"a">>, <<>>),
     Line("error", CaseSa, <<"m">>),
     Line("error", CaseSa, <<"n">>),
     Line("error", CaseSa, <<"m", EnterCase, "b", Quote>>),
     Line("other", <<>>, <<>>)}

\* The lines of a plain-text listing: suites with and without the star of an
\* enabled unit, cases indented by blanks or a tab, an empty line, a name
\* that is no word, and an indented star.
PlainLines ==
    {<<"S">>, <<"T", "*">>, <<" ", "a">>, <<" ", " ", "b", "*">>, <<"\t", "c">>,
     <<>>, <<"S", "/", "a">>, <<" ", "*">>}

\* ------------------------------------------------------------------- state
VARIABLES
    configured,     \* testExecutable is set (the constructor found the setting)
    currentTests,   \* the catalog: a suite record, or Absent
    watcher,        \* the file system watcher exists
    mutex,          \* the gate: [locked, queue of waiting calls]
    tasks,          \* the calls of load() and run(), in call order
    events,         \* what testsEmitter and testStatesEmitter were told to
                    \* fire, in order (a disposed emitter has no listener)
    log,            \* the entries written to the log
    exe,            \* the executable on disk: "ok", "noexec" or "missing"
    pendingAccess,  \* access() calls of watch events not yet called back:
                    \* how many have not looked at the file yet, and how
                    \* many found it executable or not
    nlines,         \* stdout lines printed so far
    disposed,       \* the disposables that dispose() has disposed
    fsEvents        \* the changes of the file the watcher has not reported
                    \* yet, oldest first: "delete" or "change"

vars == <<configured, currentTests, watcher, mutex, tasks, events, log, exe,
          pendingAccess, nlines, disposed, fsEvents>>

TaskIds == 1..Len(tasks)

\* A session: its state ("none", "running", "failed", "returned", "closed"),
\* what it was spawned for ("list", "run"; "none" without a process), its
\* arguments, the code of a spawn error, the exit code (-1 before the close)
\* and, for a listing, the graph its standard error parsed to.
NoSession == [state |-> "none", mode |-> "none", args |-> <<>>,
              code |-> Undefined, exit |-> -1, parsed |-> None]

NewTask(kind, via, pc, tests, all) ==
    [kind |-> kind, via |-> via, pc |-> pc, tests |-> tests, all |-> all,
     sess |-> NoSession, suite |-> None, error |-> None, lines |-> <<>>,
     listing |-> None, result |-> None]

\* ------------------------------------------------------------------- gate
\* Mutex.acquire of async-mutex: the lock is taken at the call when it is free,
\* otherwise the caller queues; release hands the lock to the first waiter.
\* A gate that never makes a caller wait.
GateAlwaysFree(m) == TRUE

GateFree(m) == ~m.locked

\* The pc a call gets when it asks for the gate.
AcquirePc(m) == IF GateFree(m) THEN "acquired" ELSE "wait"

Acquire(m, t) ==
    IF GateFree(m) THEN [m EXCEPT !.locked = TRUE]
    ELSE [m EXCEPT !.queue = Append(@, t)]

Release(m) ==
    IF Len(m.queue) > 0 THEN [m EXCEPT !.queue = Tail(@)]
    ELSE [m EXCEPT !.locked = FALSE]

\* A release that takes the first waiter off the queue without resuming it.
ReleasedForgets(ts, m, t, sess) ==
    [i \in DOMAIN ts |->
        IF i = t THEN [ts[i] EXCEPT !.pc = "returned", !.sess = sess]
        ELSE ts[i]]

\* The tasks after task t released the gate and returned, its session
\* ending as sess.
Released(ts, m, t, sess) ==
    [i \in DOMAIN ts |->
        IF i = t THEN [ts[i] EXCEPT !.pc = "returned", !.sess = sess]
        ELSE IF Len(m.queue) > 0 /\ i = Head(m.queue)
             THEN [ts[i] EXCEPT !.pc = "acquired"]
             ELSE ts[i]]

Closed(sess) == [sess EXCEPT !.state = "closed"]

\* ------------------------------------------------------------ emitters, log
Ev(em, type, t, data) == [em |-> em, type |-> type, task |-> t, data |-> data]

LogEntry(level, t, err) == [level |-> level, task |-> t, err |-> err]

\* What load() logs without an executable, in the shape of a logged error.
NoExecutableMessage == [name |-> "No test executable", code |-> Undefined]

\* What the constructor logs: the executable and the source prefix of the
\* settings.  It belongs to no call (task 0).
SettingsMessage ==
    [name |-> IF configured THEN "executable = 'b/t'"
              ELSE "executable = 'undefined'",
     code |-> Undefined]

\* No access() call of the watcher is in flight.
NoAccess == [started |-> 0, passed |-> 0, failed |-> 0]

\* The access() calls in flight.
AccessesInFlight(p) == p.started + p.passed + p.failed

\* ---------------------------------------------------------------- sessions
\* TestExecutable.run: spawn the executable; the completion signal rejects
\* when the spawn fails and resolves with the exit code when it closes.
Spawn(mode, args) ==
    [state |-> IF exe = "ok" THEN "running" ELSE "failed",
     mode |-> mode,
     args |-> <<"-x", "no">> \o args,
     code |-> CASE exe = "ok" -> Undefined
                [] exe = "missing" -> "ENOENT"
                [] exe = "noexec" -> "EACCES",
     exit |-> -1,
     parsed |-> None]

SpawnError(sess) == [name |-> "spawn", code |-> sess.code]

\* The sessions that are alive: spawned and not yet closed or failed.
Sessions == {t \in TaskIds : tasks[t].pc = "io" /\ tasks[t].sess.mode # "none"}

Init ==
    /\ configured \in BOOLEAN
    /\ currentTests = Absent
    /\ watcher = FALSE
    /\ mutex = [locked |-> FALSE, queue |-> <<>>]
    /\ tasks = <<>>
    /\ events = <<>>
    /\ log = <<LogEntry("info", 0, SettingsMessage)>>
    /\ exe \in {"ok", "noexec", "missing"}
    /\ pendingAccess = NoAccess
    /\ nlines = 0
    /\ disposed = {}
    /\ fsEvents = <<>>


\* ------------------------------------------------------------------ load()
\* BinaryError is imported by the coordinator from the executable driver; the
\* driver does not throw one for any failure of listTest.
IsBinaryError(e) == e.name = "BinaryError"

\* The catch of load(): every failure but a BinaryError of code ENOENT is logged.
LoadLogs(e) == ~(IsBinaryError(e) /\ e.code = "ENOENT")

\* A load() that asks for the gate whether or not an executable is set.
LoadInvokeAlways(via, max) ==
    LET t == Len(tasks) + 1 IN
    /\ Len(tasks) < max
    /\ tasks' = Append(tasks, NewTask("load", via, AcquirePc(mutex), <<>>, FALSE))
    /\ mutex' = Acquire(mutex, t)
    /\ log' = log

\* load() up to its first await: without an executable it returns at once,
\* otherwise it asks for the gate.  via is "host" or "watch"; at most max
\* calls are made over a behaviour.
LoadInvokeUpTo(via, max) ==
    LET t == Len(tasks) + 1 IN
    /\ Len(tasks) < max
    /\ IF ~configured
       THEN /\ tasks' = Append(tasks, NewTask("load", via, "returned", <<>>, FALSE))
            /\ log' = Append(log, LogEntry("info", t, NoExecutableMessage))
            /\ mutex' = mutex
       ELSE /\ tasks' = Append(tasks,
                          NewTask("load", via, AcquirePc(mutex), <<>>, FALSE))
            /\ mutex' = Acquire(mutex, t)
            /\ log' = log

LoadInvoke(via) == LoadInvokeUpTo(via, MaxCalls)

\* The host calls load().
LoadCall ==
    /\ LoadInvoke("host")
    /\ UNCHANGED <<configured, fsEvents, disposed, currentTests, watcher, events, exe,
                   pendingAccess, nlines>>

\* load() resumes with the gate: "discovery started", then listTest spawns the
\* listing process and awaits its completion signal.
LoadStart(t) ==
    /\ tasks[t].kind = "load"
    /\ tasks[t].pc = "acquired"
    /\ events' = Append(events, Ev("tests", "started", t, Absent))
    /\ tasks' = [tasks EXCEPT ![t].pc = "io",
                              ![t].sess = Spawn("list", <<"--list_content=DOT">>)]
    /\ UNCHANGED <<configured, fsEvents, disposed, currentTests, watcher, mutex, log, exe,
                   pendingAccess, nlines>>

\* A load() that adds the suites of the listing to the catalog it has.
LoadCatalogMerged(r) ==
    IF r.tag # "ok" THEN Absent
    ELSE IF currentTests = Absent THEN r.val
    ELSE [r.val EXCEPT !.children = currentTests.children \o @]

\* A load() that keeps the catalog it had when listTest throws.
LoadCatalogKept(r) == IF r.tag = "ok" THEN r.val ELSE currentTests

\* The catalog load() stores for the result r of listTest.
LoadCatalog(r) == IF r.tag = "ok" THEN r.val ELSE Absent

\* "discovery finished" fired only after a listing that made a catalog.
TestsFinishedOnSuccess(t, r, catalog) ==
    IF r.tag = "throw" THEN events
    ELSE Append(events, Ev("tests", "finished", t, catalog))

\* The events after load() fired "discovery finished" with the stored catalog.
TestsFinished(t, r, catalog) ==
    Append(events, Ev("tests", "finished", t, catalog))

\* load() from the result r of listTest to its end: the catalog, the log,
\* "discovery finished", the release of the gate and the watcher.
LoadFinish(t, r, sess) ==
    /\ currentTests' = LoadCatalog(r)
    /\ log' = IF r.tag = "throw" /\ LoadLogs(r.err)
              THEN Append(log, LogEntry("error", t, r.err))
              ELSE log
    /\ events' = TestsFinished(t, r, currentTests')
    /\ mutex' = Release(mutex)
    /\ tasks' = Released(tasks, mutex, t, sess)
    /\ watcher' = TRUE
    /\ UNCHANGED <<configured, fsEvents, disposed, exe, pendingAccess, nlines>>

\* The listing process closes.
ListClose(t, o) ==
    /\ tasks[t].kind = "load"
    /\ tasks[t].pc = "io"
    /\ tasks[t].sess.state = "running"
    /\ LoadFinish(t, listTestClosed(o.exit, o.parsed),
                  [Closed(tasks[t].sess) EXCEPT !.exit = o.exit,
                                                !.parsed = Some(o.parsed)])

\* The spawn of the listing process failed.
ListError(t) ==
    /\ tasks[t].kind = "load"
    /\ tasks[t].pc = "io"
    /\ tasks[t].sess.state = "failed"
    /\ LoadFinish(t, listTestRejected(SpawnError(tasks[t].sess)),
                  Closed(tasks[t].sess))

\* ------------------------------------------------------------------- run()
Range(f) == {f[i] : i \in DOMAIN f}

StartsWith(id, p) == Len(id) >= Len(p) /\ SubSeq(id, 1, Len(p)) = p

RECURSIVE Join(_, _)
Join(ss, sep) ==
    IF Len(ss) = 0 THEN <<>>
    ELSE IF Len(ss) = 1 THEN ss[1]
    ELSE ss[1] \o sep \o Join(Tail(ss), sep)

\* A filter of all the requested identifiers, in the order of the request.
FilterJoined(ids) == Join(ids, <<":">>)

\* The -t argument of a run of ids.
Filter(ids) ==
    LET IsSuite(id) == "/" \notin Range(id)
        suites == SelectSeq(ids, IsSuite)
        NotCovered(id) ==
            ~\E i \in 1..Len(suites) :
                id = suites[i] \/ StartsWith(id, suites[i] \o <<"/">>)
        cases == SelectSeq(ids, NotCovered)
    IN Join(suites \o cases, <<":">>)

\* The arguments runTests spawns with; ids is None for "run all".
RunArgs(ids) ==
    IF ids # None THEN <<"-l", "test_suite", "-t", Filter(ids[1])>>
    ELSE <<"-l", "test_suite">>

\* `${suite}/${name}`
SuiteText(suite) ==
    IF suite = None THEN <<"u", "n", "d", "e", "f", "i", "n", "e", "d">>
    ELSE suite[1]

CaseId(suite, name) == SuiteText(suite) \o <<"/">> \o name

TestEvent(test, state, message) ==
    [type |-> "test", test |-> test, state |-> state, message |-> message]

SuiteEvent(suite, state) ==
    [type |-> "suite", test |-> suite, state |-> state, message |-> None]

\* A parser that carries the error of a case over its exit line.
ErrorKept(error) == error

\* The pending error after a case-exit line: error = undefined.
ErrorAfterCaseEnd(error) == None

\* A handler that forgets the suite and the error on a line it does not
\* recognise.
UnmatchedResets(suite, error) == [suite |-> None, error |-> None, out |-> <<>>]

\* A line none of the patterns matches: the handler falls through.
Unmatched(suite, error) == [suite |-> suite, error |-> error, out |-> <<>>]

\* The 'line' handler of runTests on the standard output: the parser state
\* after the line and the progress events it reports.  The patterns are
\* tried in the order of the code and the first that matches returns.
ProcessLine(suite, error, line) ==
    LET caseStart == MatchQuoted(line, EnterCase)
        caseEnd == MatchTimed(line, LeaveCase)
        caseError == MatchError(line)
        suiteStart == MatchQuoted(line, EnterSuite)
        suiteEnd == MatchTimed(line, LeaveSuite)
    IN
    IF caseStart # None
    THEN [suite |-> suite, error |-> error,
          out |-> <<TestEvent(CaseId(suite, caseStart[1]), "running", None)>>]
    ELSE IF caseEnd # None
    THEN [suite |-> suite, error |-> ErrorAfterCaseEnd(error),
          out |-> <<TestEvent(CaseId(suite, caseEnd[1]),
                              IF error = None THEN "passed" ELSE "failed",
                              error)>>]
    ELSE IF caseError # None
    THEN [suite |-> suite, error |-> Some(caseError[1]), out |-> <<>>]
    ELSE IF suiteStart # None
    THEN [suite |-> Some(suiteStart[1]), error |-> error,
          out |-> <<SuiteEvent(suiteStart[1], "running")>>]
    ELSE IF suiteEnd # None
    THEN [suite |-> None, error |-> error,
          out |-> <<SuiteEvent(suiteEnd[1], "completed")>>]
    ELSE Unmatched(suite, error)

\* currentTests!.id of a coordinator without a catalog is a TypeError.
RunAllThrows(tests) == Len(tests) = 1 /\ currentTests = Absent

RunAll(tests) == Len(tests) = 1 /\ tests[1] = currentTests.id

\* The host calls run(tests): "all" is decided from the catalog of this
\* moment, before the gate is asked for.  At most max calls are made over a
\* behaviour.
RunCallUpTo(tests, max) ==
    LET t == Len(tasks) + 1 IN
    /\ Len(tasks) < max
    /\ IF RunAllThrows(tests)
       THEN /\ tasks' = Append(tasks, NewTask("run", "host", "threw", tests, FALSE))
            /\ mutex' = mutex
       ELSE /\ tasks' = Append(tasks, NewTask("run", "host", AcquirePc(mutex),
                                              tests, RunAll(tests)))
            /\ mutex' = Acquire(mutex, t)
    /\ UNCHANGED <<configured, fsEvents, disposed, currentTests, watcher, events, log, exe,
                   pendingAccess, nlines>>

RunCall(tests) == RunCallUpTo(tests, MaxCalls)

\* "run finished" fired only after a runTests that did not throw.
StatesFinishedOnSuccess(evs, t, r) ==
    IF r.tag = "throw" THEN evs
    ELSE Append(evs, Ev("testStates", "finished", t, <<>>))

\* The events evs after run() fired "run finished"; r is the result of
\* runTests.
StatesFinished(evs, t, r) ==
    Append(evs, Ev("testStates", "finished", t, <<>>))

\* run() from the result r of runTests to its own end: the log on a failure,
\* "run finished" and the release of the gate.
RunFinish(t, evs, r, sess) ==
    /\ log' = IF r.tag = "throw"
              THEN Append(log, LogEntry("error", t, r.err))
              ELSE log
    /\ events' = StatesFinished(evs, t, r)
    /\ mutex' = Release(mutex)
    /\ tasks' = Released(tasks, mutex, t, sess)
    /\ UNCHANGED <<configured, fsEvents, disposed, currentTests, watcher, exe, pendingAccess,
                   nlines>>

\* A runTests that spawns the executable for an empty list as for any other.
RunStartSpawns(t) ==
    LET started == Append(events, Ev("testStates", "started", t, tasks[t].tests))
        ids == IF tasks[t].all THEN None ELSE Some(tasks[t].tests)
    IN
    /\ tasks[t].kind = "run"
    /\ tasks[t].pc = "acquired"
    /\ IF ~configured
       THEN RunFinish(t, started, Throw("TypeError"), tasks[t].sess)
       ELSE /\ events' = started
            /\ tasks' = [tasks EXCEPT ![t].pc = "io",
                                      ![t].sess = Spawn("run", RunArgs(ids))]
            /\ UNCHANGED <<configured, fsEvents, disposed, currentTests, watcher, mutex, log, exe,
                           pendingAccess, nlines>>

\* run() resumes with the gate: "run started", then runTests up to its await.
RunStart(t) ==
    LET started == Append(events, Ev("testStates", "started", t, tasks[t].tests))
        ids == IF tasks[t].all THEN None ELSE Some(tasks[t].tests)
    IN
    /\ tasks[t].kind = "run"
    /\ tasks[t].pc = "acquired"
    /\ IF ~configured
       THEN \* this.testExecutable!.runTests on undefined
            RunFinish(t, started, Throw("TypeError"), tasks[t].sess)
       ELSE /\ events' = started
            /\ tasks' = [tasks EXCEPT
                  ![t].pc = "io",
                  ![t].sess = IF ids # None /\ Len(ids[1]) = 0
                              THEN [NoSession EXCEPT !.state = "returned"]
                              ELSE Spawn("run", RunArgs(ids))]
            /\ UNCHANGED <<configured, fsEvents, disposed, currentTests, watcher, mutex, log, exe,
                           pendingAccess, nlines>>

\* A progress callback that fires nothing.
ProgressDropped(evs, t, out) == evs

\* The progress callback run() hands to runTests: every event the parser
\* reports is fired on testStatesEmitter at once.
Progress(evs, t, out) ==
    evs \o [i \in 1..Len(out) |-> Ev("testStates", "progress", t, out[i])]

\* The running executable prints a line on its standard output, at most max
\* lines over a behaviour.
RunLineUpTo(t, line, max) ==
    LET r == ProcessLine(tasks[t].suite, tasks[t].error, line) IN
    /\ tasks[t].kind = "run"
    /\ tasks[t].pc = "io"
    /\ tasks[t].sess.state = "running"
    /\ nlines < max
    /\ nlines' = nlines + 1
    /\ tasks' = [tasks EXCEPT ![t].suite = r.suite, ![t].error = r.error,
                              ![t].lines = Append(@, line)]
    /\ events' = Progress(events, t, r.out)
    /\ UNCHANGED <<configured, fsEvents, disposed, currentTests, watcher, mutex, log, exe,
                   pendingAccess>>

RunLine(t, line) == RunLineUpTo(t, line, MaxLines)

\* A runTests that throws when the executable reports a failure.
runTestsThrowsOnFailure(code) ==
    IF code = 0 THEN Ok(TRUE) ELSE Throw("is exited with code")

\* runTests after the run closed with exit code `code`.
runTestsClosed(code) == Ok(code = 0)

\* The running executable closes.
RunClose(t, code) ==
    /\ tasks[t].kind = "run"
    /\ tasks[t].pc = "io"
    /\ tasks[t].sess.state = "running"
    /\ RunFinish(t, events, runTestsClosed(code),
                 [Closed(tasks[t].sess) EXCEPT !.exit = code])

\* The spawn of the run failed: runTests rejects.
RunError(t) ==
    /\ tasks[t].kind = "run"
    /\ tasks[t].pc = "io"
    /\ tasks[t].sess.state = "failed"
    /\ RunFinish(t, events, ThrowErr(SpawnError(tasks[t].sess)),
                 Closed(tasks[t].sess))

\* runTests of an empty list returned true without a process.
RunReturned(t) ==
    /\ tasks[t].kind = "run"
    /\ tasks[t].pc = "io"
    /\ tasks[t].sess.state = "returned"
    /\ RunFinish(t, events, Ok(TRUE), Closed(tasks[t].sess))

\* ------------------------------------------- listTest, plain-text listing
\* The driver of src/src/test-executable.ts lines 1-176, constructed with the
\* path alone: it reads the output of --list_content line by line.
WhiteChars == {" ", "\t"}

\* \w+\*?$ : the name, if the text is a word with at most one star after it.
MatchName(text) ==
    LET n == Len(text)
        name == IF n > 0 /\ text[n] = "*" THEN SubSeq(text, 1, n - 1) ELSE text
    IN IF IsWord(name) THEN Some(name) ELSE None

\* /^(\w+)\*?$/
MatchTop(line) == MatchName(line)

\* /^\s+(\w+)\*?$/
MatchIndented(line) ==
    LET n == Len(line)
        black == {i \in 1..n : line[i] \notin WhiteChars}
        k == IF black = {} THEN n + 1 ELSE Min(black)
    IN IF k > 1 THEN MatchName(SubSeq(line, k, n)) ELSE None

\* The catalog listTest starts from.
PlainRoot == [type |-> "suite", id |-> ExePath, label |-> ExePath,
              children |-> <<>>]

\* A case that is given its bare name for an identifier.
PlainCaseBare(suite, name) == name

\* `${suite.id}/${match[1]}`
PlainCaseId(suite, name) == suite.id \o <<"/">> \o name

\* The 'line' handler of listTest: tests after the line.  The variable suite
\* of the code is the last suite pushed, undefined before the first.
PlainOnLine(tests, line) ==
    LET top == MatchTop(line)
        indented == MatchIndented(line)
        n == Len(tests.children)
    IN IF top # None
       THEN [tests EXCEPT !.children =
                Append(@, [type |-> "suite", id |-> top[1], label |-> top[1],
                           children |-> <<>>])]
       ELSE IF n > 0 /\ indented # None
       THEN [tests EXCEPT !.children[n].children =
                Append(@, [type |-> "test",
                           id |-> PlainCaseId(tests.children[n], indented[1]),
                           label |-> indented[1]])]
       ELSE tests

\* listTest after the listing process closed with exit code `code`.
PlainClosed(code, tests) ==
    IF code # 0 THEN Throw("is exited with code") ELSE Ok(tests)

\* listTest() is called: it spawns the listing process and awaits its
\* completion signal.
PlainCall ==
    /\ tasks = <<>>
    /\ configured
    /\ tasks' = <<[NewTask("list", "host", "io", <<>>, FALSE) EXCEPT
                     !.sess = Spawn("list", <<"--list_content">>),
                     !.listing = Some(PlainRoot)]>>
    /\ UNCHANGED <<configured, fsEvents, disposed, currentTests, watcher, mutex, events, log, exe,
                   pendingAccess, nlines>>

\* The listing process prints a line on its standard error.
PlainLine(t, line) ==
    /\ tasks[t].kind = "list"
    /\ tasks[t].pc = "io"
    /\ tasks[t].sess.state = "running"
    /\ Len(tasks[t].lines) < MaxPlain
    /\ tasks' = [tasks EXCEPT
          ![t].lines = Append(@, line),
          ![t].listing = Some(PlainOnLine(tasks[t].listing[1], line))]
    /\ UNCHANGED <<configured, fsEvents, disposed, currentTests, watcher, mutex, events, log, exe,
                   pendingAccess, nlines>>

\* The tasks after listTest of task t ended with r.
PlainEnd(t, r, sess) ==
    /\ tasks' = [tasks EXCEPT
          ![t].pc = IF r.tag = "ok" THEN "returned" ELSE "threw",
          ![t].sess = sess,
          ![t].result = Some(r)]
    /\ UNCHANGED <<configured, fsEvents, disposed, currentTests, watcher, mutex, events, log, exe,
                   pendingAccess, nlines>>

\* The listing process closes.
PlainClose(t, code) ==
    /\ tasks[t].kind = "list"
    /\ tasks[t].pc = "io"
    /\ tasks[t].sess.state = "running"
    /\ PlainEnd(t, PlainClosed(code, tasks[t].listing[1]),
                [Closed(tasks[t].sess) EXCEPT !.exit = code])

\* The spawn of the listing process failed: the completion signal rejects
\* and so does listTest.
PlainError(t) ==
    /\ tasks[t].kind = "list"
    /\ tasks[t].pc = "io"
    /\ tasks[t].sess.state = "failed"
    /\ PlainEnd(t, ThrowErr(SpawnError(tasks[t].sess)), Closed(tasks[t].sess))

\* ----------------------------------------------------------------- cancel()
\* A cancel() that ends the runs in flight: their processes are killed and
\* "run finished" is fired for them.
CancelKills(max) ==
    LET running == {t \in TaskIds : tasks[t].kind = "run" /\ tasks[t].pc = "io"}
    IN
    /\ Len(tasks) < max
    /\ tasks' = Append([t \in TaskIds |->
                           IF t \in running
                           THEN [tasks[t] EXCEPT !.pc = "returned",
                                                 !.sess = Closed(@)]
                           ELSE tasks[t]],
                       NewTask("cancel", "host", "returned", <<>>, FALSE)
                           @@ [at |-> Len(events)])
    /\ events' = IF running = {} THEN events
                 ELSE Append(events, Ev("testStates", "finished",
                                        CHOOSE t \in running : TRUE, <<>>))
    /\ mutex' = IF running = {} THEN mutex ELSE Release(mutex)
    /\ UNCHANGED <<configured, fsEvents, disposed, currentTests, watcher, log, exe,
                   pendingAccess, nlines>>

\* The host calls cancel(): the body is empty.  The call is recorded with
\* the number of events fired before it; at most max calls are made over a
\* behaviour.
CancelUpTo(max) ==
    /\ Len(tasks) < max
    /\ tasks' = Append(tasks, NewTask("cancel", "host", "returned", <<>>, FALSE)
                                  @@ [at |-> Len(events)])
    /\ UNCHANGED <<configured, fsEvents, disposed, currentTests, watcher, mutex, events, log, exe,
                   pendingAccess, nlines>>

Cancel == CancelUpTo(MaxCalls)

\* ------------------------------------------------------------------ debug()
\* The arguments of the debug session: the identifiers joined with commas
\* behind --run_test=, and none when that text is empty.
DebugArgs(tests) ==
    LET ids == Join(tests, <<",">>)
    IN IF ids = <<>> THEN <<>> ELSE <<<<"--run_test=">> \o ids>>

\* The requests the host makes of debug(): none, and a case with its suite.
DebugRequests == {<<>>, <<CaseSa, <<"S">>>>}

\* The launch configuration debug() logs and starts.
DebugMessage(tests) ==
    [name |-> "(lldb) Launch test cmake", code |-> Undefined,
     program |-> Resolve(WorkspaceFsPath, ExePath), args |-> DebugArgs(tests)]

\* The launch configurations logged so far.
Debugged == SelectSeq(log, LAMBDA e : e.err.name = "(lldb) Launch test cmake")

\* The host calls debug(): the launch configuration is logged and a debug
\* session of the executable is started, which is the debugger's and no
\* state of the adapter.  The gate is not asked for and no event is fired.
\* Without an executable the path of the executable cannot be read: the
\* call rejects with a TypeError before it has logged anything.  At most
\* MaxDebug calls are logged over a behaviour.
Debug(tests) ==
    /\ Len(Debugged) < MaxDebug
    /\ log' = IF configured
              THEN Append(log, LogEntry("info", 0, DebugMessage(tests)))
              ELSE log
    /\ UNCHANGED <<configured, fsEvents, disposed, currentTests, watcher, mutex, tasks,
                   events, exe, pendingAccess, nlines>>

\* ---------------------------------------------------------------- dispose()
\* The host calls dispose(): cancel() is called, then every disposable is
\* disposed and the list is emptied: the two emitters, and the watcher once
\* load() has made it.  The watcher field stays set, so a later load() makes
\* no new watcher.  At most max calls are made over a behaviour.
DisposeUpTo(max) ==
    /\ Len(tasks) < max
    /\ tasks' = Append(tasks, NewTask("cancel", "dispose", "returned", <<>>, FALSE)
                                  @@ [at |-> Len(events)])
    /\ disposed' = disposed \cup {"testsEmitter", "testStatesEmitter"}
                             \cup (IF watcher THEN {"watcher"} ELSE {})
    /\ UNCHANGED <<configured, fsEvents, currentTests, watcher, mutex, events, log, exe,
                   pendingAccess, nlines>>

Dispose == DisposeUpTo(MaxCalls)

\* ------------------------------------------------------------ file system
\* The watcher delivers events: it was created and has not been disposed.
Watching == watcher /\ "watcher" \notin disposed

\* What the watcher has in flight: changes not reported yet and access()
\* calls not called back yet.
WatchInFlight == Len(fsEvents) + AccessesInFlight(pendingAccess)

\* The executable is built, rebuilt, chmod-ed or deleted on disk.  A live
\* watcher notes the change and reports it later, from the event loop; the
\* host may call in between.
FileChange(new) ==
    /\ ~(exe = "missing" /\ new = "missing")
    /\ exe' = new
    /\ IF Watching
       THEN /\ WatchInFlight < MaxPending
            /\ fsEvents' = Append(fsEvents, IF new = "missing" THEN "delete"
                                            ELSE "change")
       ELSE UNCHANGED fsEvents
    /\ UNCHANGED <<configured, disposed, currentTests, watcher, mutex, tasks,
                   events, log, pendingAccess, nlines>>

\* The watcher reports its oldest change: onDidDelete calls load(),
\* onDidCreate and onDidChange start access(path, X_OK).  A disposed
\* watcher reports nothing.
FsEventUpTo(max) ==
    /\ Watching
    /\ fsEvents # <<>>
    /\ fsEvents' = Tail(fsEvents)
    /\ IF Head(fsEvents) = "delete"
       THEN /\ LoadInvokeUpTo("watch", max)
            /\ UNCHANGED pendingAccess
       ELSE /\ pendingAccess' = [pendingAccess EXCEPT !.started = @ + 1]
            /\ UNCHANGED <<tasks, mutex, log>>
    /\ UNCHANGED <<configured, disposed, currentTests, watcher, events, exe,
                   nlines>>

FsEvent == FsEventUpTo(MaxCalls)

\* An access() call in flight looks at the file: its result is what the
\* file is at this moment, whatever happens to the file before the callback.
AccessCheck ==
    /\ pendingAccess.started > 0
    /\ pendingAccess' =
          IF exe = "ok"
          THEN [pendingAccess EXCEPT !.started = @ - 1, !.passed = @ + 1]
          ELSE [pendingAccess EXCEPT !.started = @ - 1, !.failed = @ + 1]
    /\ UNCHANGED <<configured, fsEvents, disposed, currentTests, watcher, mutex, tasks,
                   events, log, exe, nlines>>

\* A create or change callback that calls load() whatever access() reports.
AccessDoneUnchecked(max) ==
    \E r \in {"passed", "failed"} :
        /\ pendingAccess[r] > 0
        /\ pendingAccess' = [pendingAccess EXCEPT ![r] = @ - 1]
        /\ LoadInvokeUpTo("watch", max)
        /\ UNCHANGED <<configured, fsEvents, disposed, currentTests, watcher, events, exe,
                       nlines>>

\* The callback of access(path, X_OK) of a create or change event: it calls
\* load() when access() reported no error.
AccessDoneUpTo(max) ==
    \E r \in {"passed", "failed"} :
        /\ pendingAccess[r] > 0
        /\ pendingAccess' = [pendingAccess EXCEPT ![r] = @ - 1]
        /\ IF r = "passed"
           THEN LoadInvokeUpTo("watch", max)
           ELSE UNCHANGED <<tasks, mutex, log>>
        /\ UNCHANGED <<configured, fsEvents, disposed, currentTests, watcher, events, exe,
                       nlines>>

AccessDone == AccessDoneUpTo(MaxCalls)

Next ==
    \/ LoadCall
    \/ \E t \in TaskIds : LoadStart(t)
    \/ \E t \in TaskIds : \E o \in CoordOutcomes : ListClose(t, o)
    \/ \E t \in TaskIds : ListError(t)
    \/ \E tests \in RunRequests : RunCall(tests)
    \/ \E t \in TaskIds : RunStart(t)
    \/ \E t \in TaskIds : \E line \in RunLines : RunLine(t, line)
    \/ \E t \in TaskIds : \E code \in ExitCodes : RunClose(t, code)
    \/ \E t \in TaskIds : RunError(t)
    \/ \E t \in TaskIds : RunReturned(t)
    \/ \E new \in {"ok", "noexec", "missing"} : FileChange(new)
    \/ FsEvent
    \/ AccessCheck
    \/ AccessDone

Spec == Init /\ [][Next]_vars

\* The coordinator under load() and the watcher alone, against every listing.
NextDiscovery ==
    \/ LoadCall
    \/ \E t \in TaskIds : LoadStart(t)
    \/ \E t \in TaskIds : \E o \in ListOutcomes : ListClose(t, o)
    \/ \E t \in TaskIds : ListError(t)
    \/ \E new \in {"ok", "noexec", "missing"} : FileChange(new)
    \/ FsEvent
    \/ AccessCheck
    \/ AccessDone

SpecDiscovery == Init /\ [][NextDiscovery]_vars

\* The host calls run() once, with any of the requests.
RequestCall(tests) ==
    /\ \A t \in TaskIds : tasks[t].kind # "run"
    /\ RunCall(tests)

\* The coordinator under load() and one run() of any request.
NextRequests ==
    \/ LoadCall
    \/ \E t \in TaskIds : LoadStart(t)
    \/ \E t \in TaskIds : \E o \in RequestOutcomes : ListClose(t, o)
    \/ \E t \in TaskIds : ListError(t)
    \/ \E tests \in Requests : RequestCall(tests)
    \/ \E t \in TaskIds : RunStart(t)
    \/ \E t \in TaskIds : \E code \in ExitCodes : RunClose(t, code)
    \/ \E t \in TaskIds : RunError(t)
    \/ \E t \in TaskIds : RunReturned(t)

SpecRequests == Init /\ [][NextRequests]_vars

\* The host calls load() on a coordinator that has served no call yet.
ListingCall ==
    /\ tasks = <<>>
    /\ LoadCall

\* The listing process of a generated module closes.
ListingClose(t) ==
    /\ tasks[t].pc = "io"
    /\ tasks[t].sess.state = "running"
    /\ \E o \in GenOutcomes : ListClose(t, o)

\* One load() against every generated listing.
NextListing ==
    \/ ListingCall
    \/ \E t \in TaskIds : LoadStart(t)
    \/ \E t \in TaskIds : ListingClose(t)
    \/ \E t \in TaskIds : ListError(t)

SpecListing == Init /\ [][NextListing]_vars

\* The host calls run() on a coordinator that has served no call yet.
StreamCall(tests) ==
    /\ tasks = <<>>
    /\ RunCall(tests)

\* The executable of that run prints a line.
StreamLine(t, line) == RunLineUpTo(t, line, MaxStream)

\* One run() followed through the lines of its output stream.
NextRunStream ==
    \/ \E tests \in RunRequests : StreamCall(tests)
    \/ \E t \in TaskIds : RunStart(t)
    \/ \E t \in TaskIds : \E line \in StreamLines : StreamLine(t, line)
    \/ \E t \in TaskIds : \E code \in ExitCodes : RunClose(t, code)
    \/ \E t \in TaskIds : RunError(t)
    \/ \E t \in TaskIds : RunReturned(t)

SpecRunStream == Init /\ [][NextRunStream]_vars

\* One listTest() of the plain-text driver, line by line.
NextPlain ==
    \/ PlainCall
    \/ \E t \in TaskIds : \E line \in PlainLines : PlainLine(t, line)
    \/ \E t \in TaskIds : \E code \in ExitCodes : PlainClose(t, code)
    \/ \E t \in TaskIds : PlainError(t)

SpecPlain == Init /\ [][NextPlain]_vars

\* The host calls load() on a coordinator that has served no call yet.
WatchedLoad ==
    /\ tasks = <<>>
    /\ LoadInvokeUpTo("host", MaxWatched)
    /\ UNCHANGED <<configured, fsEvents, disposed, currentTests, watcher, events, exe,
                   pendingAccess, nlines>>

\* The host calls run() once.
WatchedRun(tests) ==
    /\ \A t \in TaskIds : tasks[t].kind # "run"
    /\ RunCallUpTo(tests, MaxWatched)

\* One load() and one run() of the host, the reloads of the watcher, and
\* dispose().
NextWatch ==
    \/ WatchedLoad
    \/ \E t \in TaskIds : LoadStart(t)
    \/ \E t \in TaskIds : \E o \in CoordOutcomes : ListClose(t, o)
    \/ \E t \in TaskIds : ListError(t)
    \/ \E tests \in RunRequests : WatchedRun(tests)
    \/ \E t \in TaskIds : RunStart(t)
    \/ \E t \in TaskIds : \E code \in ExitCodes : RunClose(t, code)
    \/ \E t \in TaskIds : RunError(t)
    \/ \E t \in TaskIds : RunReturned(t)
    \/ \E new \in {"ok", "noexec", "missing"} : FileChange(new)
    \/ FsEventUpTo(MaxWatched)
    \/ AccessCheck
    \/ AccessDoneUpTo(MaxWatched)
    \/ DisposeUpTo(MaxWatched)

SpecWatch == Init /\ [][NextWatch]_vars

\* ----------------------------------------------- the resources of a session
\* TestExecutable.run with what it holds: the process ("running", or "none"
\* when the launch failed), and the line readers of its standard output and
\* standard error ("none", "open", "closed").  failing names the reader
\* whose createInterface throws, "none" when both are made.  In the catch
\* the readers made so far are closed and process.kill() is called.  On a
\* process that runs, kill() ends it.  On a process that was not launched
\* the outcome is the runtime's: kill() does nothing, or it sends SIGTERM
\* to the process group of the process the adapter itself runs in
\* (signalled), which ends that process inside run(): state "terminated".
RunSession(mode, args, failing, signalled) ==
    LET s == Spawn(mode, args)
        proc == IF s.state = "running" THEN "running" ELSE "none"
        killed == IF proc = "running" THEN "killed" ELSE proc
        after == IF proc = "none" /\ signalled THEN "terminated" ELSE "threw"
    IN CASE failing = "none" ->
              s @@ [proc |-> proc, stdout |-> "open", stderr |-> "open",
                    failing |-> failing]
         [] failing = "stdout" ->
              [s EXCEPT !.state = after]
                 @@ [proc |-> killed, stdout |-> "none", stderr |-> "none",
                     failing |-> failing]
         [] failing = "stderr" ->
              [s EXCEPT !.state = after]
                 @@ [proc |-> killed, stdout |-> "closed", stderr |-> "none",
                     failing |-> failing]

\* The process the adapter runs in was ended by the kill() of run()'s
\* catch: no code of the adapter runs any more.
AdapterTerminated ==
    \E t \in TaskIds :
        tasks[t].sess.mode # "none" /\ tasks[t].sess.state = "terminated"

\* load() resumes with the gate: "discovery started", then listTest calls
\* run(), which returns a session, throws, or ends the adapter's process.
SessionStart(t, failing, signalled) ==
    /\ tasks[t].kind = "load"
    /\ tasks[t].pc = "acquired"
    /\ events' = Append(events, Ev("tests", "started", t, Absent))
    /\ tasks' = [tasks EXCEPT
          ![t].pc = "io",
          ![t].sess = RunSession("list", <<"--list_content=DOT">>, failing,
                                 signalled)]
    /\ UNCHANGED <<configured, fsEvents, disposed, currentTests, watcher, mutex, log, exe,
                   pendingAccess, nlines>>

\* run() threw: listTest rejects with what createInterface threw.
SessionThrown(t) ==
    /\ tasks[t].kind = "load"
    /\ tasks[t].pc = "io"
    /\ tasks[t].sess.state = "threw"
    /\ LoadFinish(t, Throw("TypeError"), tasks[t].sess)

\* The launch failed: the process fires 'error', the completion signal
\* rejects and listTest ends; the readers are as run() left them, open,
\* and close by themselves later.
SessionError(t) ==
    /\ tasks[t].kind = "load"
    /\ tasks[t].pc = "io"
    /\ tasks[t].sess.state = "failed"
    /\ LoadFinish(t, listTestRejected(SpawnError(tasks[t].sess)),
                  Closed(tasks[t].sess))

\* A line reader closes by itself when its input ends, in a job of its
\* own that run() has no part in.  The output of a running process ends
\* before the process fires 'close'; the output of a process that did not
\* launch ends after the 'error' event has rejected the completion signal
\* and load() has gone on with it.
ReaderCloses(t, reader) ==
    /\ tasks[t].kind = "load"
    /\ tasks[t].sess.mode # "none"
    /\ tasks[t].sess[reader] = "open"
    /\ \/ tasks[t].pc = "io" /\ tasks[t].sess.state = "running"
       \/ tasks[t].pc = "returned" /\ tasks[t].sess.code # Undefined
    /\ tasks' = [tasks EXCEPT ![t].sess[reader] = "closed"]
    /\ UNCHANGED <<configured, fsEvents, disposed, currentTests, watcher,
                   mutex, events, log, exe, pendingAccess, nlines>>

\* The process fires 'close': it has ended and its streams are closed, the
\* readers having closed before when their input ended.
SessionClose(t, o) ==
    /\ tasks[t].kind = "load"
    /\ tasks[t].pc = "io"
    /\ tasks[t].sess.state = "running"
    /\ tasks[t].sess.stdout = "closed"
    /\ tasks[t].sess.stderr = "closed"
    /\ LoadFinish(t, listTestClosed(o.exit, o.parsed),
                  [Closed(tasks[t].sess) EXCEPT
                      !.exit = o.exit, !.parsed = Some(o.parsed),
                      !.proc = "exited"])

\* load() with the resources of its sessions, as long as the process the
\* adapter runs in lives.
NextSession ==
    \/ ~AdapterTerminated /\ LoadCall
    \/ /\ ~AdapterTerminated
       /\ \E t \in TaskIds : \E failing \in {"none", "stdout", "stderr"} :
             \E signalled \in BOOLEAN : SessionStart(t, failing, signalled)
    \/ ~AdapterTerminated /\ \E t \in TaskIds : SessionThrown(t)
    \/ ~AdapterTerminated /\ \E t \in TaskIds : SessionError(t)
    \/ /\ ~AdapterTerminated
       /\ \E t \in TaskIds : \E reader \in {"stdout", "stderr"} :
             ReaderCloses(t, reader)
    \/ /\ ~AdapterTerminated
       /\ \E t \in TaskIds : \E o \in CoordOutcomes : SessionClose(t, o)

SpecSession == Init /\ [][NextSession]_vars

\* What the coordinator does by itself once it can: a call that was given
\* the gate resumes, and a process that was spawned closes or reports its
\* spawn error; access() calls back.  The calls of the host and the events
\* of the file system are not forced.
Resumes ==
    \/ \E t \in TaskIds : LoadStart(t)
    \/ \E t \in TaskIds : RunStart(t)
    \/ \E t \in TaskIds : RunReturned(t)

Completes ==
    \/ \E t \in TaskIds : \E o \in CoordOutcomes : ListClose(t, o)
    \/ \E t \in TaskIds : ListError(t)
    \/ \E t \in TaskIds : \E code \in ExitCodes : RunClose(t, code)
    \/ \E t \in TaskIds : RunError(t)

\* The coordinator under load(), run() and the watcher, every continuation
\* and every process completion eventually happening.
NextLive ==
    \/ LoadCall
    \/ \E tests \in RunRequests : RunCall(tests)
    \/ \E new \in {"ok", "noexec", "missing"} : FileChange(new)
    \/ FsEvent
    \/ AccessCheck
    \/ AccessDone
    \/ Resumes
    \/ Completes

\* The listing process closes.  A close is enabled with every outcome in
\* the same states and ends the same session, so weak fairness of the close
\* with one outcome says that the process eventually closes, with whatever
\* outcome.
ListEnds ==
    \E t \in TaskIds : ListClose(t, [exit |-> 201, parsed |-> DotEmpty])

\* The run closes, or the launch of a process reports its error.
RunEnds == \E t \in TaskIds : \E code \in ExitCodes : RunClose(t, code)
LaunchFails == \E t \in TaskIds : ListError(t) \/ RunError(t)

SpecLive ==
    /\ Init
    /\ [][NextLive]_vars
    /\ WF_vars(Resumes)
    /\ WF_vars(ListEnds)
    /\ WF_vars(RunEnds)
    /\ WF_vars(LaunchFails)
    /\ WF_vars(AccessCheck)
    /\ WF_vars(AccessDone)

\* The coordinator under a host that calls load(), run(), cancel(), debug()
\* and dispose(), the file left as it is.
NextCancel ==
    \/ LoadCall
    \/ \E t \in TaskIds : LoadStart(t)
    \/ \E t \in TaskIds : \E o \in CoordOutcomes : ListClose(t, o)
    \/ \E t \in TaskIds : ListError(t)
    \/ \E tests \in RunRequests : RunCall(tests)
    \/ \E t \in TaskIds : RunStart(t)
    \/ \E t \in TaskIds : \E line \in RunLines : RunLine(t, line)
    \/ \E t \in TaskIds : \E code \in ExitCodes : RunClose(t, code)
    \/ \E t \in TaskIds : RunError(t)
    \/ \E t \in TaskIds : RunReturned(t)
    \/ Cancel
    \/ \E tests \in DebugRequests : Debug(tests)
    \/ Dispose

SpecCancel == Init /\ [][NextCancel]_vars


\* ================================================================== claims
\* The calls that hold the gate.
Holders == {t \in TaskIds : tasks[t].pc \in {"acquired", "io"}}

\* The events call t fired, in order.
EventsOf(t) ==
    LET Mine(e) == e.task = t IN SelectSeq(events, Mine)

Types(evs) == [i \in 1..Len(evs) |-> evs[i].type]

Count(evs, type) == Cardinality({i \in 1..Len(evs) : evs[i].type = type})

\* The operations that are open in the eyes of the host: started, not finished.
OpenOps == Count(events, "started") - Count(events, "finished")

ErrorsOf(t) == {i \in 1..Len(log) : log[i].task = t /\ log[i].level = "error"}

\* C1: at most one process session is alive at any time, at most one call
\* holds the gate, and the host never sees two operations open at once
\* (a discovery and a run, two discoveries or two runs).
C1_OneSessionAtATime ==
    /\ Cardinality(Sessions) <= 1
    /\ Cardinality(Holders) <= 1
    /\ OpenOps \in {0, 1}
    /\ \A t \in Sessions : t \in Holders /\ mutex.locked

\* C1 witness: a listing session is alive while a run() waits for the gate.
C1_Witness ==
    \E t, u \in TaskIds :
        /\ t \in Sessions /\ tasks[t].kind = "load"
        /\ tasks[t].sess.state = "running"
        /\ tasks[u].kind = "run" /\ tasks[u].pc = "wait"


\* The call appended by this step, if the step is a call of load() or run().
Called == Len(tasks') = Len(tasks) + 1
NewCall == tasks'[Len(tasks')]

InFlight(kind) == \E t \in Holders : tasks[t].kind = kind

\* The events this step fired.
Fired == {i \in 1..Len(events') : i > Len(events)}

\* C2: a run() called while a load() holds the gate becomes a waiter of the
\* gate (and so is served after the load's release), and a load() called
\* while a run() holds the gate becomes a waiter too.
C2_CalledDuringOtherWaits ==
    [][Called =>
         /\ (NewCall.kind = "run" /\ InFlight("load")) => NewCall.pc = "wait"
         /\ (NewCall.kind = "load" /\ configured /\ InFlight("run"))
               => NewCall.pc = "wait"]_vars

\* C2, the part the code keeps: whatever another call fires after a call's
\* "started" comes after that call's "finished"; a waiter has fired nothing
\* and has no session.
C2_Ordering ==
    /\ \A i, j \in 1..Len(events) :
          (i < j /\ events[i].type = "started" /\ events[j].task # events[i].task)
             => \E k \in (i + 1)..(j - 1) :
                   events[k].type = "finished" /\ events[k].task = events[i].task
    /\ \A t \in TaskIds :
          tasks[t].pc = "wait" =>
             EventsOf(t) = <<>> /\ tasks[t].sess = NoSession /\ mutex.locked

\* The events of each load() with an executable configured, by its position.
C3_LoadShape ==
    \A t \in TaskIds :
        (tasks[t].kind = "load" /\ configured) =>
            /\ tasks[t].pc \in {"wait", "acquired", "io", "returned"}
            /\ tasks[t].pc \in {"wait", "acquired"} => EventsOf(t) = <<>>
            /\ tasks[t].pc = "io" => Types(EventsOf(t)) = <<"started">>
            /\ tasks[t].pc = "returned" =>
                  Types(EventsOf(t)) = <<"started", "finished">>

\* Every event of testsEmitter is fired by a load() that holds the gate, and
\* "finished" carries the catalog the step stores.
C3_LoadStep ==
    \A i \in Fired :
        events'[i].em = "tests" =>
            /\ events'[i].task \in Holders
            /\ mutex.locked
            /\ tasks[events'[i].task].kind = "load"
            /\ events'[i].type = "finished" => events'[i].data = currentTests'

\* C3: a load() with an executable configured has fired nothing before it
\* holds the gate, "started" alone while it lists, and "started" then
\* "finished" once it returned, whether the listing made a catalog or not;
\* both are fired by the holder of the gate, and "finished" carries the
\* catalog the coordinator holds after the step.
C3_LoadEvents == [](C3_LoadShape) /\ [][C3_LoadStep]_vars

\* C3 witness: one load() failed and one made a catalog, each with its pair.
C3_Witness ==
    \E t, u \in TaskIds :
        /\ tasks[t].kind = "load" /\ tasks[t].pc = "returned"
        /\ ErrorsOf(t) # {}
        /\ Types(EventsOf(t)) = <<"started", "finished">>
        /\ EventsOf(t)[2].data = Absent
        /\ tasks[u].kind = "load" /\ tasks[u].pc = "returned"
        /\ Types(EventsOf(u)) = <<"started", "finished">>
        /\ EventsOf(u)[2].data # Absent

\* "started", then progress events, then "finished" when closed.
RunShape(types, closed) ==
    LET n == Len(types) IN
    /\ n >= (IF closed THEN 2 ELSE 1)
    /\ types[1] = "started"
    /\ \A i \in 2..(IF closed THEN n - 1 ELSE n) : types[i] = "progress"
    /\ closed => types[n] = "finished"

\* The events of each run(), by its position.
C4_RunShape ==
    \A t \in TaskIds :
        tasks[t].kind = "run" =>
            /\ tasks[t].pc \in {"wait", "acquired", "threw"} => EventsOf(t) = <<>>
            /\ tasks[t].pc = "io" =>
                  /\ RunShape(Types(EventsOf(t)), FALSE)
                  /\ mutex.locked /\ Holders = {t}
            /\ tasks[t].pc = "returned" => RunShape(Types(EventsOf(t)), TRUE)
            /\ EventsOf(t) # <<>> => EventsOf(t)[1].data = tasks[t].tests

\* Every event of testStatesEmitter is fired by a run() that holds the gate.
C4_RunStep ==
    \A i \in Fired :
        events'[i].em = "testStates" =>
            /\ events'[i].task \in Holders
            /\ mutex.locked
            /\ tasks[events'[i].task].kind = "run"

\* C4: a run() has fired nothing before it holds the gate; once resumed it
\* has fired "started" with the requested identifiers, then progress events
\* only, and it holds the gate until it has fired its one "finished", which
\* it fires also when runTests failed; all are fired by the holder.
C4_RunEvents == [](C4_RunShape) /\ [][C4_RunStep]_vars

\* C4 witness: a run whose spawn failed has "started" and "finished", and a
\* run that printed a line has a progress event between the two.
C4_Witness ==
    \E t, u \in TaskIds :
        /\ tasks[t].kind = "run" /\ tasks[t].pc = "returned"
        /\ tasks[t].sess.code = "ENOENT" /\ ErrorsOf(t) # {}
        /\ Types(EventsOf(t)) = <<"started", "finished">>
        /\ tasks[u].kind = "run" /\ tasks[u].pc = "returned"
        /\ Types(EventsOf(u)) = <<"started", "progress", "finished">>


\* The catalogs the two well-formed listings stand for, written out.
CaseInfo(id, label, file, line) ==
    [type |-> "test", id |-> id, label |-> label, file |-> file, line |-> line]

CatalogOneSuite ==
    [type |-> "suite", id |-> <<"b", "/", "t">>, label |-> <<"t">>,
     file |-> <<"/", "w", "/", "b", "/", "t">>,
     children |-> <<
        [type |-> "suite", id |-> <<"S">>, label |-> <<"S">>,
         file |-> <<"f">>, line |-> 2,
         children |-> <<CaseInfo(<<"S", "/", "a">>, <<"a">>, <<"f">>, 3),
                        CaseInfo(<<"S", "/", "b">>, <<"b">>, <<"f">>, 6)>>]>>]

CatalogTwoSuites ==
    [type |-> "suite", id |-> <<"b", "/", "t">>, label |-> <<"t">>,
     file |-> <<"/", "w", "/", "b", "/", "t">>,
     children |-> <<
        [type |-> "suite", id |-> <<"S">>, label |-> <<"S">>,
         file |-> <<"f">>, line |-> 2,
         children |-> <<CaseInfo(<<"S", "/", "a">>, <<"a">>, <<"f">>, 3)>>],
        [type |-> "suite", id |-> <<"T">>, label |-> <<"T">>,
         file |-> <<"f">>, line |-> 9, children |-> <<>>]>>]

CompleteCatalogs == {CatalogOneSuite, CatalogTwoSuites}

\* The "discovery finished" events, in order.
Published ==
    LET IsFinished(e) == e.em = "tests" /\ e.type = "finished"
    IN SelectSeq(events, IsFinished)

LoadsReturned ==
    {t \in TaskIds : tasks[t].kind = "load" /\ tasks[t].pc = "returned"
                     /\ configured}

\* The listing of load t closed and was one discovery fails on.
ListingFailed(t) ==
    /\ tasks[t].sess.parsed # None
    /\ \/ tasks[t].sess.exit # 0
       \/ tasks[t].sess.parsed[1] \in BadDots

\* C5: a load() whose listing exited nonzero or cannot be made a catalog
\* returns normally, has logged an error and has published absent; the
\* coordinator's catalog is always the last one published, and what is
\* published is absent or a complete catalog, never a part of one.
C5_DiscoveryFailureAbsent ==
    /\ \A t \in LoadsReturned :
          ListingFailed(t) =>
             /\ Types(EventsOf(t)) = <<"started", "finished">>
             /\ EventsOf(t)[2].data = Absent
             /\ Cardinality(ErrorsOf(t)) = 1
    /\ \A t \in TaskIds : tasks[t].kind = "load" => tasks[t].pc # "threw"
    /\ \A i \in 1..Len(Published) :
          Published[i].data = Absent \/ Published[i].data \in CompleteCatalogs
    /\ currentTests = IF Published = <<>> THEN Absent
                      ELSE Published[Len(Published)].data

\* C5 witness: a catalog was published, then a listing with a malformed case
\* label after a well-formed suite and case made the catalog absent.
C5_Witness ==
    \E t, u \in LoadsReturned :
        /\ t < u
        /\ EventsOf(t)[2].data \in CompleteCatalogs
        /\ tasks[u].sess.parsed = Some(DotBadLabel)
        /\ tasks[u].sess.exit = 0
        /\ currentTests = Absent

SpawnFailed(t, code) ==
    tasks[t].pc = "returned" /\ tasks[t].sess.code = code

\* C6: a load() whose spawn failed with ENOENT has fired "started" and
\* "finished" with absent, has left the catalog absent and has written no
\* error to the log.
C6_MissingBinarySilent ==
    \A t \in LoadsReturned :
        SpawnFailed(t, "ENOENT") =>
            /\ Types(EventsOf(t)) = <<"started", "finished">>
            /\ EventsOf(t)[2].data = Absent
            /\ ErrorsOf(t) = {}
            /\ (events[Len(events)].task = t => currentTests = Absent)

\* C6 witness: a catalog was published, the executable was deleted, and the
\* reload the watcher called found no binary.
C6_Witness ==
    \E t, u \in LoadsReturned :
        /\ t < u
        /\ EventsOf(t)[2].data \in CompleteCatalogs
        /\ tasks[u].via = "watch"
        /\ SpawnFailed(u, "ENOENT")
        /\ currentTests = Absent

\* C7 as stated: a load() whose spawn failed because the file is not
\* executable ends with the catalog absent and no error in the log.
C7_NotExecutableSilent ==
    \A t \in LoadsReturned :
        SpawnFailed(t, "EACCES") =>
            /\ EventsOf(t)[2].data = Absent
            /\ ErrorsOf(t) = {}

\* C7 amended: a load() whose spawn failed because the file is not
\* executable ends with the catalog absent and "finished" fired with absent,
\* and the spawn error is written to the log.
C7_NotExecutableLogged ==
    \A t \in LoadsReturned :
        SpawnFailed(t, "EACCES") =>
            /\ Types(EventsOf(t)) = <<"started", "finished">>
            /\ EventsOf(t)[2].data = Absent
            /\ (events[Len(events)].task = t => currentTests = Absent)
            /\ Cardinality(ErrorsOf(t)) = 1
            /\ \A i \in ErrorsOf(t) : log[i].err.code = "EACCES"

\* C7 witness: a load() of a file that is not executable has returned.
C7_Witness ==
    \E t \in LoadsReturned : SpawnFailed(t, "EACCES") /\ ErrorsOf(t) # {}

RunsReturned ==
    {t \in TaskIds : tasks[t].kind = "run" /\ tasks[t].pc = "returned"}

\* C8: a run() called while the executable is missing does not throw, and
\* once its spawn has failed it has logged the failure and fired "finished".
C8_MissingBinaryRunFails ==
    /\ [][(Called /\ NewCall.kind = "run" /\ exe = "missing" /\ configured)
             => NewCall.pc # "threw"]_vars
    /\ [](\A t \in RunsReturned :
             SpawnFailed(t, "ENOENT") =>
                /\ ErrorsOf(t) # {}
                /\ RunShape(Types(EventsOf(t)), TRUE))

\* C9 as stated: a run whose executable exited with a nonzero code has
\* logged the failure and fired "finished".
C9_NonzeroExitLogged ==
    \A t \in RunsReturned :
        tasks[t].sess.exit > 0 =>
            /\ ErrorsOf(t) # {}
            /\ RunShape(Types(EventsOf(t)), TRUE)

\* A run whose executable exited with a nonzero code: its log and events.
C9_NonzeroExitShape ==
    \A t \in RunsReturned :
        tasks[t].sess.exit > 0 =>
            /\ ErrorsOf(t) = {}
            /\ RunShape(Types(EventsOf(t)), TRUE)

\* No step removes or changes an event already fired, and the close of a
\* run's executable adds "finished" alone.
C9_EventsStand ==
    /\ Len(events') >= Len(events)
    /\ SubSeq(events', 1, Len(events)) = events
    /\ \A t \in TaskIds :
          (tasks[t].kind = "run" /\ tasks[t].sess.state = "running"
             /\ tasks'[t].pc = "returned") =>
                /\ Len(events') = Len(events) + 1
                /\ events'[Len(events')].type = "finished"
                /\ events'[Len(events')].task = t

\* C9 amended: a run whose executable exited with a nonzero code has fired
\* "finished" and has written nothing to the log; no step removes or
\* changes an event already fired, and the close adds "finished" alone.
C9_NonzeroExitNotLogged == [](C9_NonzeroExitShape) /\ [][C9_EventsStand]_vars

\* C9 witness: a run printed a line, its executable exited with 201, and the
\* progress event stands before "finished".
C9_Witness ==
    \E t \in RunsReturned :
        /\ tasks[t].sess.exit = 201
        /\ Types(EventsOf(t)) = <<"started", "progress", "finished">>
        /\ ErrorsOf(t) = {}

\* The calls that failed: a load() that published absent, a run() that
\* logged an error or whose executable exited with a nonzero code.
FailedCalls ==
    {t \in LoadsReturned : EventsOf(t)[2].data = Absent}
        \cup {t \in RunsReturned : ErrorsOf(t) # {} \/ tasks[t].sess.exit > 0}

\* C10: once a load() or run() has failed and the coordinator is idle, the
\* next call of load() or run() gets the gate at once.
C10_ServedAfterFailure ==
    [][(Called /\ configured /\ FailedCalls # {} /\ Holders = {})
          => NewCall.pc = "acquired"]_vars

\* C10, the part the code keeps: when no call holds or awaits the gate, the
\* gate is free, and a load() after a failed call gets the gate at once.
C10_GateFreeWhenIdle ==
    /\ [](Holders = {} => ~mutex.locked /\ mutex.queue = <<>>)
    /\ [][(Called /\ configured /\ FailedCalls # {} /\ Holders = {}
             /\ NewCall.kind = "load") => NewCall.pc = "acquired"]_vars

\* ---------------------------------------------------- run all and filters
\* The arguments of a run of everything.
RunAllArgs == <<"-x", "no", "-l", "test_suite">>

\* The arguments of a run of the identifiers ids.
FilterArgs(ids) == <<"-x", "no", "-l", "test_suite", "-t", Filter(ids)>>

\* The run() calls with a request that is not empty.
Runs == {t \in TaskIds : tasks[t].kind = "run" /\ tasks[t].tests # <<>>}

\* The run() calls that spawned the executable.
Invoked == {t \in Runs : tasks[t].sess.mode = "run"}

\* C11: a run() of a request that is not empty does not throw and, once it
\* holds the gate with an executable configured, spawns the executable; the
\* arguments are those of "run all" if and only if the request is the root
\* identifier alone, and carry the -t filter of the request otherwise.
C11_RunAllIffRoot ==
    \A t \in Runs :
        configured =>
            /\ tasks[t].pc # "threw"
            /\ tasks[t].pc \in {"io", "returned"} => t \in Invoked
            /\ t \in Invoked =>
                  /\ tasks[t].sess.args = RunAllArgs
                        <=> tasks[t].tests = <<ExePath>>
                  /\ tasks[t].tests # <<ExePath>>
                        => tasks[t].sess.args = FilterArgs(tasks[t].tests)

\* C11, the part the code keeps: a run() that did not throw spawns with the
\* arguments of "run all" exactly for the root identifier alone, and a run()
\* throws only when it is called with one identifier and no catalog.
C11_RunAllWhenCatalog ==
    /\ [](\A t \in Runs :
            (configured /\ tasks[t].pc \in {"io", "returned"}) =>
                /\ t \in Invoked
                /\ tasks[t].sess.args =
                      IF tasks[t].tests = <<ExePath>> THEN RunAllArgs
                      ELSE FilterArgs(tasks[t].tests))
    /\ [][(Called /\ NewCall.kind = "run" /\ NewCall.pc = "threw")
             => (currentTests = Absent /\ Len(NewCall.tests) = 1)]_vars

\* The identifiers of the cases of a catalog.
CaseIdsOf(catalog) ==
    UNION {{catalog.children[i].children[j].id :
               j \in 1..Len(catalog.children[i].children)} :
           i \in 1..Len(catalog.children)}

\* The case identifiers discovery has produced so far.
DiscoveredCases ==
    UNION {IF Published[i].data = Absent THEN {}
           ELSE {id \in RequestIds : id \in CaseIdsOf(Published[i].data)} :
           i \in 1..Len(Published)}

\* C12: a run() of one case identifier that discovery has produced does not
\* throw, is not taken for "run all", and spawns the executable with a -t
\* filter that is this identifier and nothing else.
C12_RoundTrip ==
    /\ [][(Called /\ NewCall.kind = "run" /\ Len(NewCall.tests) = 1
              /\ NewCall.tests[1] \in DiscoveredCases)
             => (NewCall.pc # "threw" /\ ~NewCall.all)]_vars
    /\ [](\A t \in Invoked :
            (Len(tasks[t].tests) = 1 /\ tasks[t].tests[1] \in DiscoveredCases)
               => tasks[t].sess.args =
                     <<"-x", "no", "-l", "test_suite", "-t", tasks[t].tests[1]>>)

\* C12, the part the code keeps: a run() of one case identifier that is not
\* taken for "run all" spawns with that identifier as its whole filter.
C12_FilterRoundTrip ==
    \A t \in Invoked :
        (Len(tasks[t].tests) = 1 /\ ~tasks[t].all
           /\ tasks[t].tests[1] \in DiscoveredCases)
           => /\ Filter(tasks[t].tests) = tasks[t].tests[1]
              /\ tasks[t].sess.args = FilterArgs(tasks[t].tests)

\* ------------------------------------------------------ the output stream
\* The pattern a line is recognised by: the first of the five it matches.
KindOf(line) ==
    CASE MatchQuoted(line, EnterCase) # None -> "case start"
      [] MatchTimed(line, LeaveCase) # None -> "case end"
      [] MatchError(line) # None -> "case error"
      [] MatchQuoted(line, EnterSuite) # None -> "suite start"
      [] MatchTimed(line, LeaveSuite) # None -> "suite end"
      [] OTHER -> "none"

\* The lines that stand for an event.
Emits(line) == KindOf(line) \notin {"case error", "none"}

\* The name quoted in a line that stands for an event.
QuotedName(line) ==
    CASE KindOf(line) = "case start" -> MatchQuoted(line, EnterCase)[1]
      [] KindOf(line) = "case end" -> MatchTimed(line, LeaveCase)[1]
      [] KindOf(line) = "suite start" -> MatchQuoted(line, EnterSuite)[1]
      [] KindOf(line) = "suite end" -> MatchTimed(line, LeaveSuite)[1]

\* The positions of the lines of a kind among the first k lines.
LinesOf(lines, kind, k) == {j \in 1..k : KindOf(lines[j]) = kind}

\* The progress events run t has forwarded, in order.
ProgressOf(t) ==
    LET IsProgress(e) == e.task = t /\ e.type = "progress"
        evs == SelectSeq(events, IsProgress)
    IN [i \in 1..Len(evs) |-> evs[i].data]

\* The place, among the progress events, of the event line k stands for.
EventAt(lines, k) == Cardinality({j \in 1..k : Emits(lines[j])})

\* The error lines that arrived before line k and after the case-exit line
\* before it, or after the start of the stream.
ErrorsBefore(lines, k) ==
    LET prev == Max({0} \cup LinesOf(lines, "case end", k - 1))
    IN {j \in (prev + 1)..(k - 1) : KindOf(lines[j]) = "case error"}

Streams == {t \in TaskIds : tasks[t].kind = "run" /\ tasks[t].lines # <<>>}

\* C13: the event of a case-exit line is "failed" with the message of the
\* last error line since the case-exit line before it (or since the start
\* of the stream) when there is such an error line, and "passed" without a
\* message otherwise; the pending error is the message of the last error
\* line after the last case-exit line, so it is empty after a case exit.
C13_ErrorPerCase ==
    \A t \in Streams :
        LET lines == tasks[t].lines
            n == Len(lines)
            pending == ErrorsBefore(lines, n + 1)
        IN /\ \A k \in LinesOf(lines, "case end", n) :
                 LET errs == ErrorsBefore(lines, k)
                     e == ProgressOf(t)[EventAt(lines, k)]
                 IN /\ e.type = "test"
                    /\ e.state = IF errs = {} THEN "passed" ELSE "failed"
                    /\ e.message = IF errs = {} THEN None
                                   ELSE MatchError(lines[Max(errs)])
           /\ tasks[t].error = IF pending = {} THEN None
                               ELSE MatchError(lines[Max(pending)])
           /\ KindOf(lines[n]) = "case end" => tasks[t].error = None

\* C13 witness: a case failed with the second of two messages, and the case
\* after it passed.
C13_Witness ==
    \E t \in Streams :
        LET p == ProgressOf(t) IN
        /\ Len(tasks[t].lines) = 4
        /\ Len(p) = 2
        /\ p[1].state = "failed" /\ p[1].message = Some(<<"n">>)
        /\ KindOf(tasks[t].lines[1]) = "case error"
        /\ tasks[t].lines[1] # tasks[t].lines[2]
        /\ p[2].state = "passed" /\ p[2].message = None

\* The event a recognised line stands for: suite entry is a suite running,
\* case entry a case running, case exit a case passed or failed, suite exit
\* a suite completed, each with the name the line quotes.
Stands(e, line) ==
    LET name == QuotedName(line)
        kind == KindOf(line)
    IN CASE kind = "suite start" ->
              e.type = "suite" /\ e.state = "running" /\ e.test = name
         [] kind = "suite end" ->
              e.type = "suite" /\ e.state = "completed" /\ e.test = name
         [] kind = "case start" ->
              /\ e.type = "test" /\ e.state = "running"
              /\ Len(e.test) > Len(name)
              /\ SubSeq(e.test, Len(e.test) - Len(name), Len(e.test))
                    = <<"/">> \o name
         [] kind = "case end" ->
              /\ e.type = "test" /\ e.state \in {"passed", "failed"}
              /\ Len(e.test) > Len(name)
              /\ SubSeq(e.test, Len(e.test) - Len(name), Len(e.test))
                    = <<"/">> \o name
         [] OTHER -> FALSE

\* In every state the progress events of a run are, one for one and in the
\* same order, the events of the recognised lines printed so far.
C14_InOrder ==
    \A t \in TaskIds :
        tasks[t].kind = "run" =>
            LET lines == tasks[t].lines IN
            /\ Len(ProgressOf(t)) = EventAt(lines, Len(lines))
            /\ \A k \in 1..Len(lines) :
                  Emits(lines[k]) =>
                     Stands(ProgressOf(t)[EventAt(lines, k)], lines[k])

\* The step that handles a line fires the event of that line and nothing
\* else, while the run awaits the completion signal; the step that handles
\* the completion signal fires no progress event.
C14_Step ==
    \A t \in TaskIds :
        /\ tasks'[t].lines # tasks[t].lines =>
              LET line == tasks'[t].lines[Len(tasks'[t].lines)] IN
              /\ tasks'[t].lines = Append(tasks[t].lines, line)
              /\ tasks[t].pc = "io" /\ tasks'[t].pc = "io"
              /\ IF Emits(line)
                 THEN /\ Len(events') = Len(events) + 1
                      /\ SubSeq(events', 1, Len(events)) = events
                      /\ events'[Len(events')].task = t
                      /\ events'[Len(events')].type = "progress"
                      /\ Stands(events'[Len(events')].data, line)
                 ELSE events' = events
        /\ tasks'[t].pc # tasks[t].pc =>
              /\ tasks'[t].lines = tasks[t].lines
              /\ (ProgressOf(t))' = ProgressOf(t)

\* C14: the progress events a run has forwarded are at every moment the
\* events of the recognised lines printed so far, in the order of the lines;
\* each is fired in the step that handles its line, before the next line
\* and before the completion signal is handled, which fires none.
C14_ForwardedInOrder == [](C14_InOrder) /\ [][C14_Step]_vars

\* C14 witness: a run printed a suite entry, a case entry, a case exit and a
\* suite exit and has returned; its events are the four of them in order
\* between "started" and "finished".
C14_Witness ==
    \E t \in RunsReturned :
        LET p == ProgressOf(t) IN
        /\ [k \in 1..Len(tasks[t].lines) |-> KindOf(tasks[t].lines[k])]
              = <<"suite start", "case start", "case end", "suite end">>
        /\ [k \in 1..Len(p) |-> p[k].state]
              = <<"running", "running", "passed", "completed">>
        /\ Types(EventsOf(t)) = <<"started", "progress", "progress",
                                  "progress", "progress", "finished">>

\* ----------------------------------------------------- plain-text listing
\* The i-th smallest element of a set of numbers.
Nth(S, i) == CHOOSE x \in S : Cardinality({y \in S : y < x}) = i - 1

\* The elements of a set of numbers in increasing order.
Ascending(S) == [i \in 1..Cardinality(S) |-> Nth(S, i)]

\* The top-level name lines of a listing, and the indented name lines.
TopLines(lines) == {k \in 1..Len(lines) : MatchTop(lines[k]) # None}

IndentedLines(lines) ==
    {k \in 1..Len(lines) : k \notin TopLines(lines)
                            /\ MatchIndented(lines[k]) # None}

\* The indented name lines after the top-level line p and before the next.
CasesOf(lines, p) ==
    {q \in IndentedLines(lines) :
        q > p /\ \A r \in TopLines(lines) : r > p => q < r}

\* The catalog the lines stand for: a suite for each top-level line, with a
\* case for each indented line that follows it before the next, in order.
PlainExpected(lines) ==
    LET tops == Ascending(TopLines(lines)) IN
    [type |-> "suite", id |-> ExePath, label |-> ExePath,
     children |->
        [i \in 1..Len(tops) |->
            LET name == MatchTop(lines[tops[i]])[1]
                cs == Ascending(CasesOf(lines, tops[i]))
            IN [type |-> "suite", id |-> name, label |-> name,
                children |->
                   [j \in 1..Len(cs) |->
                       LET c == MatchIndented(lines[cs[j]])[1]
                       IN [type |-> "test", id |-> name \o <<"/">> \o c,
                           label |-> c]]]]]

Listings == {t \in TaskIds : tasks[t].kind = "list"}

\* C15: the catalog of a plain-text listing has, in input order, one suite
\* under the root for each top-level name line and, under that suite, one
\* case with identifier <suite>/<case> for each indented name line between
\* it and the next top-level line; indented lines before the first suite and
\* lines of neither pattern add nothing.  A listing that exits with 0
\* returns this catalog.
C15_PlainListing ==
    \A t \in Listings :
        /\ tasks[t].listing = Some(PlainExpected(tasks[t].lines))
        /\ (tasks[t].pc = "returned" /\ tasks[t].sess.exit = 0)
              => tasks[t].result = Some(Ok(PlainExpected(tasks[t].lines)))

\* C15 witness: an indented line before any suite, then suite S with the
\* cases a and b, returned as the catalog with S/a and S/b under S alone.
C15_Witness ==
    \E t \in Listings :
        /\ tasks[t].lines = <<<<"\t", "c">>, <<"S">>, <<" ", "a">>,
                              <<" ", " ", "b", "*">>>>
        /\ tasks[t].pc = "returned"
        /\ tasks[t].result[1].val.children =
              <<[type |-> "suite", id |-> <<"S">>, label |-> <<"S">>,
                 children |->
                    <<[type |-> "test", id |-> <<"S", "/", "a">>,
                       label |-> <<"a">>],
                      [type |-> "test", id |-> <<"S", "/", "b">>,
                       label |-> <<"b">>]>>]>>

\* ------------------------------------------------------------ DOT listing
\* What a node of a generated listing was printed from: the name, file and
\* line whose label is the node's label.
LabelNames == {<<"S">>, <<"T">>, <<"a">>, <<"b">>, <<"t">>}
LabelFiles == {<<"f">>, <<"f", "(", "1", ")">>}
LabelLines == {1, 3, 4, 7, 10, 12}

PrintedFrom ==
    [node \in SuiteNodes \cup CaseNodes |->
        CHOOSE d \in LabelNames \X LabelFiles \X LabelLines :
            node = TestNode(d[1], d[2], d[3])]

\* The positions of the nodes among the children of a graph.
NodesOf(children) ==
    Ascending({p \in 1..Len(children) : children[p].type = "node_stmt"})

\* The subgraphs after the node at position p and before the next node.
SubgraphsOf(children, p) ==
    {q \in 1..Len(children) :
        /\ children[q].type = "subgraph"
        /\ q > p
        /\ \A r \in (p + 1)..(q - 1) : children[r].type # "node_stmt"}

\* The cases a suite's subgraph stands for, the suite being named name.
CasesExpected(name, graph) ==
    LET at == NodesOf(graph.children) IN
    [j \in 1..Len(at) |->
        LET d == PrintedFrom[graph.children[at[j]]] IN
        [type |-> "test", id |-> name \o <<"/">> \o d[1], label |-> d[1],
         file |-> d[2], line |-> d[3] - 1]]

\* The catalog a generated listing stands for.
DotExpected(dot) ==
    LET suites == dot[1].children[3].children
        at == NodesOf(suites)
    IN [type |-> "suite", id |-> ExePath, label |-> <<"t">>,
        file |-> <<"/", "w", "/", "b", "/", "t">>,
        children |->
           [i \in 1..Len(at) |->
               LET d == PrintedFrom[suites[at[i]]]
                   subs == SubgraphsOf(suites, at[i])
               IN [type |-> "suite", id |-> d[1], label |-> d[1],
                   file |-> d[2], line |-> d[3] - 1,
                   children |-> IF subs = {} THEN <<>>
                                ELSE CasesExpected(d[1], suites[Max(subs)])]]]

\* C16: the catalog a load() publishes for a well-formed DOT listing has a
\* suite for each suite node, in order, and under it the cases of the
\* subgraph that follows the suite's node, each with the identifier
\* <suite name>/<case name>; every line stored for a suite or a case is the
\* printed line minus one.
C16_DotListing ==
    \A t \in LoadsReturned :
        (tasks[t].sess.parsed # None /\ tasks[t].sess.exit = 0) =>
            /\ EventsOf(t)[2].data = DotExpected(tasks[t].sess.parsed[1])
            /\ currentTests = DotExpected(tasks[t].sess.parsed[1])

\* C16 witness: suite S (printed line 3) with the cases a and t, t printed
\* at line 12 of a file with parentheses in its name, then suite T (printed
\* line 10) without cases.
C16_Witness ==
    /\ currentTests # Absent
    /\ Len(currentTests.children) = 2
    /\ currentTests.children[1].id = <<"S">>
    /\ currentTests.children[1].line = 2
    /\ currentTests.children[1].children =
          <<CaseInfo(<<"S", "/", "a">>, <<"a">>, <<"f">>, 3),
            CaseInfo(<<"S", "/", "t">>, <<"t">>, <<"f", "(", "1", ")">>, 11)>>
    /\ currentTests.children[2].id = <<"T">>
    /\ currentTests.children[2].line = 9
    /\ currentTests.children[2].children = <<>>

\* The identifiers of all nodes of a catalog: the root, the suites, the cases.
IdsOf(catalog) ==
    <<catalog.id>>
        \o [i \in 1..Len(catalog.children) |-> catalog.children[i].id]
        \o Join([i \in 1..Len(catalog.children) |->
                   [j \in 1..Len(catalog.children[i].children) |->
                       catalog.children[i].children[j].id]], <<>>)

Distinct(ids) == \A i, j \in 1..Len(ids) : i # j => ids[i] # ids[j]

\* C19: the identifiers of the root, the suites and the cases of a
\* published catalog are pairwise distinct.
C19_IdsDistinct ==
    \A i \in 1..Len(Published) :
        Published[i].data # Absent => Distinct(IdsOf(Published[i].data))

\* The names of the suites of a listing are distinct, and so are the names
\* of the cases of each suite.
NamesDistinct(catalog) ==
    /\ Distinct([i \in 1..Len(catalog.children) |-> catalog.children[i].label])
    /\ \A i \in 1..Len(catalog.children) :
          Distinct([j \in 1..Len(catalog.children[i].children) |->
                       catalog.children[i].children[j].label])

\* C19, the part the code keeps: when the names are distinct, the
\* identifiers of the suites and cases are distinct; only the root, whose
\* identifier is the path of the executable, can then equal another node.
C19_DistinctBelowRoot ==
    \A i \in 1..Len(Published) :
        (Published[i].data # Absent /\ NamesDistinct(Published[i].data))
            => Distinct(Tail(IdsOf(Published[i].data)))

\* ------------------------------------------------------------- the filter
\* The parts of a text between the separators c.
RECURSIVE Split(_, _)
Split(text, c) ==
    LET at == Positions(text, c) IN
    IF at = {} THEN <<text>>
    ELSE <<SubSeq(text, 1, Min(at) - 1)>>
            \o Split(SubSeq(text, Min(at) + 1, Len(text)), c)

Bare(id) == \A k \in 1..Len(id) : id[k] # "/"

\* The identifier is a case of the suite: it starts with <suite>/.
Under(id, suite) == StartsWith(id, suite \o <<"/">>)

\* The runs of a subset: not empty, not taken for "run all".
SubsetRuns == {t \in Invoked : ~tasks[t].all}

\* C17: the -t argument of a run of a subset is, joined with ':', the bare
\* suite identifiers of the request in their order, followed by the other
\* identifiers that are under none of these suites, in their order; so no
\* part of the filter is under a suite of the filter, and every requested
\* identifier is a part of the filter or under a suite that is.
C17_FilterOfSubset ==
    \A t \in SubsetRuns :
        LET ids == tasks[t].tests
            args == tasks[t].sess.args
            parts == Split(args[Len(args)], ":")
            suites == SelectSeq(ids, Bare)
            Remains(id) == ~Bare(id) /\ \A k \in 1..Len(suites) :
                                           ~Under(id, suites[k])
        IN /\ Len(args) = 6
           /\ SubSeq(args, 1, 5) = <<"-x", "no", "-l", "test_suite", "-t">>
           /\ parts = suites \o SelectSeq(ids, Remains)
           /\ \A i, j \in 1..Len(parts) :
                 Bare(parts[j]) => ~Under(parts[i], parts[j])
           /\ \A k \in 1..Len(ids) :
                 \/ ids[k] \in Range(parts)
                 \/ \E j \in 1..Len(parts) :
                       Bare(parts[j]) /\ Under(ids[k], parts[j])

\* C17 witness: the request S/a, S, T/a was run with the filter S:T/a.
C17_Witness ==
    \E t \in SubsetRuns :
        /\ tasks[t].tests = <<CaseSa, <<"S">>, CaseTa>>
        /\ tasks[t].sess.args[6] = <<"S", ":", "T", "/", "a">>

\* ------------------------------------------------- the suite of a case
\* The suites open after the first k lines, the innermost last: a suite
\* entry opens a suite, a suite exit closes the innermost.
RECURSIVE OpenSuites(_, _)
OpenSuites(lines, k) ==
    IF k = 0 THEN <<>>
    ELSE LET before == OpenSuites(lines, k - 1)
             kind == KindOf(lines[k])
         IN CASE kind = "suite start" -> Append(before, QuotedName(lines[k]))
              [] kind = "suite end" /\ before # <<>> ->
                   SubSeq(before, 1, Len(before) - 1)
              [] OTHER -> before

\* Among the first k lines every suite exit closes the innermost open suite,
\* at most `depth` suites are open at once, and every case line lies inside
\* a suite.
Nested(lines, k, depth) ==
    \A j \in 1..k :
        LET before == OpenSuites(lines, j - 1)
            kind == KindOf(lines[j])
        IN /\ kind = "suite start" => Len(before) < depth
           /\ kind = "suite end" =>
                 before # <<>> /\ before[Len(before)] = QuotedName(lines[j])
           /\ kind \in {"case start", "case end"} => before # <<>>

\* The events of the case lines among the first lines nested to `depth`
\* carry <innermost open suite>/<case>, and the parser knows a suite there.
QualifiedTo(depth) ==
    \A t \in Streams :
        LET lines == tasks[t].lines IN
        \A k \in 1..Len(lines) :
            (KindOf(lines[k]) \in {"case start", "case end"}
               /\ Nested(lines, k, depth)) =>
                LET open == OpenSuites(lines, k - 1)
                    e == ProgressOf(t)[EventAt(lines, k)]
                IN /\ e.test = open[Len(open)] \o <<"/">> \o QuotedName(lines[k])
                   /\ (k = Len(lines) => tasks[t].suite # None)

\* C18: in a stream whose case lines lie between the entry and exit lines
\* of their suite, suites nesting at most one level deep, every case event
\* carries <suite>/<case> of the enclosing suite, and none is made without
\* a suite.
C18_CasesQualified == QualifiedTo(2)

\* C18, the part the code keeps: without nested suites every case event
\* carries <suite>/<case> of the suite the case lies in, the identifier
\* discovery gives the case.
C18_FlatQualified ==
    /\ QualifiedTo(1)
    /\ \A t \in Streams :
          (tasks[t].lines = <<Line("Entering test suite", <<"S">>, <<>>),
                              Line("Entering test case", <<"a">>, <<>>)>>)
             => ProgressOf(t)[2].test \in CaseIdsOf(CatalogOneSuite)

\* ------------------------------------------------- the catalog as a whole
\* The loads whose listing made a catalog.
Discoveries ==
    {t \in LoadsReturned :
        /\ tasks[t].sess.parsed # None
        /\ listTestClosed(tasks[t].sess.exit, tasks[t].sess.parsed[1]).tag = "ok"}

\* The catalog is absent or the whole catalog one discovery made and
\* published.
C20_Whole ==
    \/ currentTests = Absent
    \/ /\ currentTests \in CompleteCatalogs
       /\ \E t \in Discoveries :
             /\ currentTests =
                   listTestClosed(0, tasks[t].sess.parsed[1]).val
             /\ currentTests = EventsOf(t)[2].data

\* The loads that end in this step.
Ending == {t \in TaskIds : tasks[t].kind = "load" /\ tasks[t].pc = "io"
                            /\ tasks'[t].pc = "returned"}

\* The catalog changes only in the step that ends a discovery, and that
\* step stores the catalog of this discovery, or absent when it failed.
C20_Replaced ==
    /\ currentTests' # currentTests => Ending # {}
    /\ \A t \in Ending :
          LET sess == tasks'[t].sess
              made == IF sess.parsed = None THEN Throw("spawn")
                      ELSE listTestClosed(sess.exit, sess.parsed[1])
          IN currentTests' = IF made.tag = "ok" THEN made.val ELSE Absent

\* C20: the coordinator's catalog is always absent or the whole result of
\* one successful discovery; it stays as it is while a discovery is in
\* flight and is replaced, by the new catalog or by absent, in the one step
\* that ends the discovery.
C20_CatalogAtomic == [](C20_Whole) /\ [][C20_Replaced]_vars

\* C20 witness: a catalog was published, and it is still the catalog while
\* the listing of a reload that the watcher called is running.
C20_Witness ==
    \E t \in Discoveries : \E u \in TaskIds :
        /\ tasks[u].kind = "load" /\ tasks[u].via = "watch"
        /\ tasks[u].pc = "io" /\ tasks[u].sess.state = "running"
        /\ currentTests = EventsOf(t)[2].data
        /\ currentTests \in CompleteCatalogs

\* ------------------------------------------------- discovery, twice
\* What call t fired, without the call it came from.
FiredBy(t) ==
    [i \in 1..Len(EventsOf(t)) |->
        [em |-> EventsOf(t)[i].em, type |-> EventsOf(t)[i].type,
         data |-> EventsOf(t)[i].data]]

\* The executable gave call u what it gave call t: the same spawn result,
\* the same exit code and the same listing.
SameListing(t, u) ==
    /\ tasks[t].sess.code = tasks[u].sess.code
    /\ tasks[t].sess.exit = tasks[u].sess.exit
    /\ tasks[t].sess.parsed = tasks[u].sess.parsed

\* C21: two load() calls to which the executable gives the same listing
\* publish equal catalogs, and the second fires the same 'discovery
\* started', 'discovery finished' pair as the first.
C21_LoadIdempotent ==
    \A t \in LoadsReturned : \A u \in LoadsReturned :
        SameListing(t, u) =>
            /\ FiredBy(t) = FiredBy(u)
            /\ Types(EventsOf(u)) = <<"started", "finished">>
            /\ EventsOf(u)[2].data = EventsOf(t)[2].data

\* C21 witness: a load() and, after it returned, a second load() were given
\* the same listing of a module with suites, and a catalog is published.
C21_Witness ==
    /\ Len(tasks) = 2
    /\ LoadsReturned = {1, 2}
    /\ SameListing(1, 2)
    /\ [i \in 1..Len(events) |-> events[i].task] = <<1, 1, 2, 2>>
    /\ currentTests \in CompleteCatalogs
    /\ EventsOf(2)[2].data = currentTests

\* ------------------------------------------------------------- the watch
\* A call of load() by the watcher begins in this step.
Reloads ==
    /\ Len(tasks') = Len(tasks) + 1
    /\ tasks'[Len(tasks')].kind = "load"
    /\ tasks'[Len(tasks')].via = "watch"

\* The call that begins in this step asks for the gate: it has it at once
\* when the gate is free, and otherwise waits last in the queue, every
\* other call where it was.
Queues ==
    LET u == Len(tasks') IN
    /\ SubSeq(tasks', 1, Len(tasks)) = tasks
    /\ IF mutex.locked
       THEN /\ tasks'[u].pc = "wait"
            /\ mutex' = [mutex EXCEPT !.queue = Append(@, u)]
       ELSE /\ tasks'[u].pc = "acquired"
            /\ mutex' = [mutex EXCEPT !.locked = TRUE]

\* Nothing of the protocol moves in this step.
Quiet ==
    UNCHANGED <<tasks, mutex, events, currentTests, log>>

\* The watcher notes a change of the file on disk: a delete when the file
\* is gone, a change otherwise.
Noted == Len(fsEvents') = Len(fsEvents) + 1
NotedChange ==
    fsEvents' = Append(fsEvents, IF exe' = "missing" THEN "delete" ELSE "change")

\* The watcher reports a delete, reports a create or change, and access()
\* of a created or changed file calls back.
Reported == Len(fsEvents') = Len(fsEvents) - 1
Deleted == Reported /\ Head(fsEvents) = "delete"
Touched == Reported /\ Head(fsEvents) = "change"
Checked == pendingAccess'.passed = pendingAccess.passed - 1
Refused == pendingAccess'.failed = pendingAccess.failed - 1

\* access() looks at the file: the call passes when the file is executable
\* in this step and fails otherwise.
Looked == pendingAccess'.started = pendingAccess.started - 1
LookedAtFile ==
    pendingAccess' =
        IF exe = "ok"
        THEN [pendingAccess EXCEPT !.started = @ - 1, !.passed = @ + 1]
        ELSE [pendingAccess EXCEPT !.started = @ - 1, !.failed = @ + 1]

\* A step of the watch: a live watcher notes every change of the file, and
\* nothing is called before it reports; a reported delete calls load(); a
\* reported create or change starts access() and calls nothing before
\* access() called back; access() passes exactly when the file is
\* executable as it looks at it; the callback calls load() when access()
\* passed, and nothing otherwise; a call of load() by the watcher queues at
\* the gate.
C22_WatchStep ==
    /\ (Watching /\ exe' # exe) => Noted
    /\ Noted => Quiet /\ NotedChange
    /\ Reported => Watching /\ fsEvents' = Tail(fsEvents)
    /\ Deleted => Reloads
    /\ Touched =>
          /\ Quiet
          /\ pendingAccess' = [pendingAccess EXCEPT !.started = @ + 1]
    /\ Looked => Quiet /\ LookedAtFile
    /\ Checked => Reloads
    /\ Refused => Quiet
    /\ Reloads => /\ Queues
                  /\ Deleted \/ Checked
                  /\ UNCHANGED <<events, currentTests>>

\* After a load() cycle there is a watch, and a call that waits at the gate
\* has fired nothing and waits behind a call that holds it.
C22_WatchState ==
    /\ LoadsReturned # {} => watcher
    /\ \A t \in TaskIds :
          tasks[t].pc = "wait" =>
              /\ EventsOf(t) = <<>>
              /\ Holders # {}
              /\ t \in Range(mutex.queue)

\* C22: after a completed load() cycle the executable is watched; until
\* the watch is disposed, a create or change re-runs load() only if the
\* file passes the permission check when access() looks at it, and
\* otherwise emits nothing and leaves the catalog; a delete re-runs load()
\* unconditionally; a reload that arrives while the gate is held queues
\* behind the holder.
C22_WatchReloads == [](C22_WatchState) /\ [][C22_WatchStep]_vars

\* C22 witness: the file was deleted and the host called run() before the
\* watcher reported it; the reload the watcher then called waits at the
\* gate behind that run, and an access() call that found the file not
\* executable has not called back yet.
C22_Witness ==
    \E t \in TaskIds : \E u \in TaskIds :
        /\ tasks[t].kind = "run" /\ tasks[t].pc = "io"
        /\ tasks[u].kind = "load" /\ tasks[u].via = "watch"
        /\ tasks[u].pc = "wait"
        /\ t < u
        /\ tasks[t].sess.code = "ENOENT"
        /\ mutex.queue = <<u>>
        /\ Watching
        /\ pendingAccess.failed = 1

\* ------------------------------------------------ what a line leaves alone
\* The runs that are given a line in this step.
Fed == {t \in TaskIds : Len(tasks'[t].lines) = Len(tasks[t].lines) + 1}

\* The step gives a run a line: a line of no pattern fires nothing and
\* leaves the suite and the pending error; an error line fires nothing,
\* leaves the suite and makes its message the pending error; a case-entry
\* or case-exit line leaves the suite.
C23_LineStep ==
    \A t \in Fed :
        LET line == tasks'[t].lines[Len(tasks'[t].lines)]
            kind == KindOf(line)
        IN /\ kind = "none" =>
                 /\ events' = events
                 /\ tasks'[t].suite = tasks[t].suite
                 /\ tasks'[t].error = tasks[t].error
           /\ kind = "case error" =>
                 /\ events' = events
                 /\ tasks'[t].suite = tasks[t].suite
                 /\ tasks'[t].error = MatchError(line)
           /\ kind \in {"case start", "case end"} =>
                 tasks'[t].suite = tasks[t].suite

\* C23: in run mode a line of none of the five patterns emits no progress
\* event and leaves the current suite and the pending error; a case-error
\* line emits no progress event and changes only the pending error; a
\* case-entry or case-exit line never changes the current suite.
C23_LinesLeaveState == [][C23_LineStep]_vars

\* C23 witness: a suite and a case were entered, an error line set the
\* pending error, and a line of no pattern left all of it as it was.
C23_Witness ==
    \E t \in Streams :
        LET lines == tasks[t].lines IN
        /\ Len(lines) = 4
        /\ [k \in 1..4 |-> KindOf(lines[k])]
              = <<"suite start", "case start", "case error", "none">>
        /\ tasks[t].suite = Some(<<"S">>)
        /\ tasks[t].error = Some(<<"m">>)
        /\ Len(ProgressOf(t)) = 2

\* ---------------------------------------------------------------- cancel()
\* The calls of cancel().
Cancels == {c \in TaskIds : tasks[c].kind = "cancel"}

\* cancel() is called in this step.
Cancelling ==
    /\ Len(tasks') = Len(tasks) + 1
    /\ tasks'[Len(tasks')].kind = "cancel"

\* The step of a cancel() fires nothing, leaves every call and its session
\* where it was, and leaves the gate, the catalog, the log and the watcher;
\* called by the host and not on the way of dispose(), it disposes nothing.
C24_CancelStep ==
    Cancelling =>
        /\ SubSeq(tasks', 1, Len(tasks)) = tasks
        /\ tasks'[Len(tasks')].pc = "returned"
        /\ tasks'[Len(tasks')].via = "host" => UNCHANGED disposed
        /\ UNCHANGED <<events, mutex, currentTests, log, watcher,
                       pendingAccess, nlines>>

\* The runs that were in flight, "run started" fired, when cancel() c was
\* called.
CancelledRuns(c) ==
    {t \in 1..(c - 1) :
        /\ tasks[t].kind = "run"
        /\ \E i \in 1..tasks[c].at :
              events[i].task = t /\ events[i].type = "started"
        /\ ~\E i \in 1..tasks[c].at :
              events[i].task = t /\ events[i].type = "finished"}

\* A run that was in flight at a cancel() and has returned fired every
\* event its lines stand for and ended with "run finished".
C24_RunsGoOn ==
    \A c \in Cancels : \A t \in CancelledRuns(c) :
        /\ tasks[t].pc \in {"io", "returned"}
        /\ Len(ProgressOf(t)) = EventAt(tasks[t].lines, Len(tasks[t].lines))
        /\ tasks[t].pc = "io" => tasks[t].sess.state # "closed"
        /\ tasks[t].pc = "returned" =>
              /\ RunShape(Types(EventsOf(t)), TRUE)
              /\ tasks[t].sess.mode = "run" /\ tasks[t].sess.code = Undefined
                    => tasks[t].sess.exit \in ExitCodes

\* C24: cancel() is a no-op in every state: it emits no event, leaves the
\* sessions in flight, the gate and the catalog as they are, and a run in
\* flight at the call goes on firing progress events and ends with 'run
\* finished'.
C24_CancelNoOp == [](C24_RunsGoOn) /\ [][C24_CancelStep]_vars

\* C24 witness: cancel() was called after "run started" of a run; the run
\* then fired a progress event, its process closed by itself and the run
\* ended with "run finished".
C24_Witness ==
    \E c \in Cancels : \E t \in CancelledRuns(c) :
        /\ tasks[t].pc = "returned"
        /\ tasks[t].sess.exit = 0
        /\ tasks[c].at = 1
        /\ tasks[c].via = "host"
        /\ Types(EventsOf(t)) = <<"started", "progress", "finished">>

\* ------------------------------------------------- a session that failed
\* The sessions whose failure reached the caller: the launch failed or a
\* line reader could not be made, and listTest has ended.
FailedSessions ==
    {t \in TaskIds :
        /\ tasks[t].kind = "load"
        /\ tasks[t].pc = "returned"
        /\ tasks[t].sess.mode # "none"
        /\ (tasks[t].sess.code # Undefined \/ tasks[t].sess.failing # "none")}

\* Nothing of session t is left: no process runs and no reader is open.
NothingLeft(t) ==
    /\ tasks[t].sess.proc # "running"
    /\ tasks[t].sess.stdout # "open"
    /\ tasks[t].sess.stderr # "open"

\* C25: once the failure of a session that did not launch, or whose line
\* streams could not be established, has reached the caller, no process of
\* it is running and no stream of it is open.
C25_NothingLeftBehind == \A t \in FailedSessions : NothingLeft(t)

\* A session whose line readers could not be made leaves nothing behind.
C25_ReaderFailureCleans ==
    \A t \in FailedSessions : tasks[t].sess.failing # "none" => NothingLeft(t)

\* ------------------------------------------------ load() without executable
\* load() is called in this step.
Loading ==
    /\ Len(tasks') = Len(tasks) + 1
    /\ tasks'[Len(tasks')].kind = "load"

\* A load() called without an executable returns at once: it fires nothing
\* and leaves the gate, the catalog, the watcher and every other call.
C26_LoadStep ==
    Loading /\ ~configured =>
        /\ tasks'[Len(tasks')].pc = "returned"
        /\ tasks'[Len(tasks')].sess = NoSession
        /\ SubSeq(tasks', 1, Len(tasks)) = tasks
        /\ UNCHANGED <<events, mutex, currentTests, watcher>>

\* Without an executable no load() ever fires an event, holds or waits for
\* the gate or has a process, and there is no watcher and no catalog.
C26_Unconfigured ==
    ~configured =>
        /\ \A i \in 1..Len(events) : events[i].em # "tests"
        /\ \A t \in TaskIds :
              tasks[t].kind = "load" =>
                  /\ tasks[t].pc = "returned"
                  /\ tasks[t].sess = NoSession
                  /\ t \notin Range(mutex.queue)
        /\ ~watcher
        /\ currentTests = Absent

\* C26: load() called when no executable is configured emits neither
\* 'discovery started' nor 'discovery finished', does not acquire the gate,
\* spawns no process, creates no watch and leaves the catalog unchanged.
C26_LoadUnconfigured == [](C26_Unconfigured) /\ [][C26_LoadStep]_vars

\* C26 witness: without an executable, load() was called while a run() held
\* the gate, and returned: the run still holds the gate, nobody waits and
\* nothing was fired.
C26_Witness ==
    /\ ~configured
    /\ Len(tasks) = 2
    /\ tasks[1].kind = "run" /\ tasks[1].pc = "acquired"
    /\ tasks[2].kind = "load" /\ tasks[2].pc = "returned"
    /\ mutex = [locked |-> TRUE, queue |-> <<>>]
    /\ events = <<>>

\* ------------------------------------------------------------ run of nothing
\* The calls of run([]) on a coordinator with an executable.
EmptyRuns ==
    {t \in TaskIds : tasks[t].kind = "run" /\ tasks[t].tests = <<>>
                     /\ configured}

\* The places of the events of call t among all events.
PlacesOf(t) == {i \in 1..Len(events) : events[i].task = t}

\* A run([]) never has a process; once it has the gate it has fired "run
\* started", and once it returned it has fired "run started" and right
\* after it "run finished", nothing else, and holds the gate no more.
C27_EmptyRunState ==
    \A t \in EmptyRuns :
        /\ tasks[t].sess.mode = "none"
        /\ tasks[t].pc \in {"wait", "acquired", "io", "returned"}
        /\ tasks[t].pc = "io" => Types(EventsOf(t)) = <<"started">>
        /\ tasks[t].pc = "returned" =>
              /\ Types(EventsOf(t)) = <<"started", "finished">>
              /\ \E i \in 1..Len(events) : PlacesOf(t) = {i, i + 1}
              /\ t \notin Holders
              /\ ErrorsOf(t) = {}

\* The step in which a run([]) returns releases the gate it held.
C27_EmptyRunStep ==
    \A t \in EmptyRuns :
        tasks[t].pc # "returned" /\ tasks'[t].pc = "returned" =>
            /\ tasks[t].pc = "io"
            /\ mutex.locked
            /\ mutex' = Release(mutex)

\* C27: run([]) with a catalog present spawns no process: it acquires the
\* gate, emits 'run started' immediately followed by 'run finished' with no
\* progress event in between, and releases the gate.
C27_EmptyRun == [](C27_EmptyRunState) /\ [][C27_EmptyRunStep]_vars

\* C27 witness: with a catalog published, run([]) was called and returned
\* after its two events, and the gate is free.
C27_Witness ==
    \E t \in EmptyRuns :
        /\ tasks[t].pc = "returned"
        /\ currentTests \in CompleteCatalogs
        /\ PlacesOf(t) = {3, 4}
        /\ events[2].data = currentTests
        /\ ~mutex.locked

\* ------------------------------------------------------------------ liveness
\* Call t has asked for the gate and has not returned.
Pending(t) == t \in TaskIds /\ tasks[t].pc \in {"wait", "acquired", "io"}

\* Call t has returned after its finished event and holds the gate no more.
Served(t) ==
    /\ t \in TaskIds
    /\ tasks[t].pc = "returned"
    /\ Len(EventsOf(t)) >= 2
    /\ EventsOf(t)[1].type = "started"
    /\ EventsOf(t)[Len(EventsOf(t))].type = "finished"
    /\ t \notin Holders
    /\ t \notin Range(mutex.queue)

\* C28: given that every spawned process eventually closes or reports a
\* spawn error, every load() or run() that asks for the gate eventually has
\* it, fires its finished event and releases the gate, whatever load(),
\* run() and reloads of the watcher are called around it.
C28_EveryCallServed == \A t \in 1..(MaxCalls + 1) : Pending(t) ~> Served(t)

\* C28 witness: the load() that installed the watch has been served, and so
\* has the reload the watcher called after it; the gate is free.
C28_Witness ==
    /\ Len(tasks) >= 2
    /\ tasks[1].kind = "load" /\ Served(1)
    /\ tasks[2].via = "watch" /\ Served(2)
    /\ ~mutex.locked

====
